---------------------------- MODULE Spec2Model ----------------------------
(***************************************************************************)
(* A model of ConsoleBotAssistant: the validated fields, the contact       *)
(* record and the address book of src/record.py, and the contact menus of  *)
(* src/assistant.py that drive them.                                       *)
(*                                                                         *)
(* A Python str is a sequence of characters, each character a one-element  *)
(* TLA+ string ("sup2" stands for the single character U+00B2).  An        *)
(* optional attribute is None (the empty tuple) or <<v>>.  A dict is the   *)
(* sequence of its [key, rec] items in insertion order, keys unique.       *)
(***************************************************************************)
EXTENDS Integers, Sequences, FiniteSets, TLC

VARIABLES
    pc,            \* where the interactive process stands (menu prompt, exited, crashed)
    file,          \* Phone_Book.bin: [exists, blob]
    contact_book,  \* ContactAssistant().phone_book.data of main.py's commands_menu
    phone_book,    \* phone_book.data of the Add/Edit/Delete assistant (or store) at work
    last,          \* the last command run and what it showed to the user
    today,         \* date.today()
    notes,         \* NotesAssistant().notes of main.py's commands_menu
    notes_file,    \* Save_Notes.bin: [exists, blob]
    record,        \* a Record under direct use
    inp,           \* the raw text handed to a field constructor
    field,         \* the outcome of the last field construction
    ret            \* the outcome of the last direct call on a record or store

vars == <<pc, file, contact_book, phone_book, last, today, notes, notes_file, record,
          inp, field, ret>>

-----------------------------------------------------------------------------
(* Python values *)

None == <<>>
Some(v) == <<v>>
IsNone(o) == o = <<>>
Val(o) == o[1]

Range(s) == {s[i] : i \in 1..Len(s)}

RECURSIVE Concat(_)
Concat(ss) == IF ss = <<>> THEN <<>> ELSE Head(ss) \o Concat(Tail(ss))

AsciiDigits == <<"0", "1", "2", "3", "4", "5", "6", "7", "8", "9">>
DigitSet == Range(AsciiDigits)
DigitVal(c) == (CHOOSE i \in 1..10 : AsciiDigits[i] = c) - 1
DigitChar(n) == AsciiDigits[n + 1]

\* U+00B2 SUPERSCRIPT TWO: category No, so str.isdigit() is True and
\* str.isdecimal() is False.
Sup2 == "sup2"
AsciiLower ==
    <<"a", "b", "c", "d", "e", "f", "g", "h", "i", "j", "k", "l", "m",
      "n", "o", "p", "q", "r", "s", "t", "u", "v", "w", "x", "y", "z">>
AsciiUpper ==
    <<"A", "B", "C", "D", "E", "F", "G", "H", "I", "J", "K", "L", "M",
      "N", "O", "P", "Q", "R", "S", "T", "U", "V", "W", "X", "Y", "Z">>
LowerLetters == Range(AsciiLower)
UpperLetters == Range(AsciiUpper)
Letters == LowerLetters \cup UpperLetters

\* str.isdigit(): a non-empty string whose characters all have the Unicode
\* property Digit or Decimal.
str_isdigit(s) == Len(s) > 0 /\ \A i \in 1..Len(s) : s[i] \in DigitSet \cup {Sup2}

\* str.lower() on the characters in use.
LowerChar(c) ==
    IF c \in UpperLetters THEN AsciiLower[CHOOSE i \in 1..26 : AsciiUpper[i] = c] ELSE c
str_lower(s) == [i \in 1..Len(s) |-> LowerChar(s[i])]

-----------------------------------------------------------------------------
(* datetime.date *)

IsLeap(y) == y % 4 = 0 /\ (y % 100 # 0 \/ y % 400 = 0)

\* DaysInMonth without the leap-year rule.
DaysInMonth_FebruaryAlways29(y, m) ==
    CASE m \in {1, 3, 5, 7, 8, 10, 12} -> 31
      [] m \in {4, 6, 9, 11} -> 30
      [] OTHER -> 29

DaysInMonth(y, m) ==
    CASE m \in {1, 3, 5, 7, 8, 10, 12} -> 31
      [] m \in {4, 6, 9, 11} -> 30
      [] OTHER -> IF IsLeap(y) THEN 29 ELSE 28

\* date(y, m, d) raises ValueError unless this holds (MINYEAR 1, MAXYEAR 9999).
ValidDate(y, m, d) ==
    /\ y \in 1..9999
    /\ m \in 1..12
    /\ d \in 1..DaysInMonth(y, m)

DaysBeforeYear(y) == (y - 1) * 365 + (y - 1) \div 4 - (y - 1) \div 100 + (y - 1) \div 400

RECURSIVE DaysBeforeMonth(_, _)
DaysBeforeMonth(y, m) ==
    IF m = 1 THEN 0 ELSE DaysBeforeMonth(y, m - 1) + DaysInMonth(y, m - 1)

\* date.toordinal(): comparison and subtraction of dates work on it.
toordinal(d) == DaysBeforeYear(d[1]) + DaysBeforeMonth(d[1], d[2]) + d[3]

\* date.replace(year=y): [ok, value]; not ok is ValueError.
date_replace_year(d, y) ==
    IF ValidDate(y, d[2], d[3])
    THEN [ok |-> TRUE, value |-> <<y, d[2], d[3]>>]
    ELSE [ok |-> FALSE, value |-> d]

\* date.isoweekday(): 1 is Monday; ordinal 1 (0001-01-01) is a Monday.
isoweekday(d) == ((toordinal(d) + 6) % 7) + 1

-----------------------------------------------------------------------------
(* Field validators (src/record.py) *)

\* A constructor or setter call: ok with the stored value, or not ok
\* (ValueError raised, nothing stored by this call).
Accepted(v) == [ok |-> TRUE, value |-> v]
Rejected == [ok |-> FALSE, value |-> None]

PhoneLen == 10

\* Phone.value setter.
Phone(value) ==
    IF Len(value) # PhoneLen \/ ~str_isdigit(value) THEN Rejected ELSE Accepted(value)

\* The character classes of Email's pattern
\* ^[a-zA-Z0-9._]+@[a-zA-Z0-9.-]+\.[a-zA-Z]{2,}$
EmailLocalChars == Letters \cup DigitSet \cup {".", "_"}
EmailDomainChars == Letters \cup DigitSet \cup {".", "-"}

\* One step of the pattern's automaton on character c from the set S of
\* positions: 0 start, 1 in the local part, 2 after "@", 3 in the domain,
\* 4 after the last ".", 5 one letter of the top-level domain, 6 two or more.
\* EmailStep with the top-level domain as [a-zA-Z]+ instead of [a-zA-Z]{2,}.
EmailStep_OneLetterTld(S, c) ==
    {q \in 1..6 :
        \/ q = 1 /\ c \in EmailLocalChars /\ (0 \in S \/ 1 \in S)
        \/ q = 2 /\ c = "@" /\ 1 \in S
        \/ q = 3 /\ c \in EmailDomainChars /\ (2 \in S \/ 3 \in S)
        \/ q = 4 /\ c = "." /\ 3 \in S
        \/ q = 6 /\ c \in Letters /\ (4 \in S \/ 6 \in S)}

EmailStep(S, c) ==
    {q \in 1..6 :
        \/ q = 1 /\ c \in EmailLocalChars /\ (0 \in S \/ 1 \in S)
        \/ q = 2 /\ c = "@" /\ 1 \in S
        \/ q = 3 /\ c \in EmailDomainChars /\ (2 \in S \/ 3 \in S)
        \/ q = 4 /\ c = "." /\ 3 \in S
        \/ q = 5 /\ c \in Letters /\ 4 \in S
        \/ q = 6 /\ c \in Letters /\ (5 \in S \/ 6 \in S)}

RECURSIVE EmailRun(_, _)
EmailRun(S, s) == IF s = <<>> THEN S ELSE EmailRun(EmailStep(S, Head(s)), Tail(s))

\* re.search(pattern, value) for a value without a line break (input() gives none).
EmailMatch(value) == 6 \in EmailRun({0}, value)

\* Email.value setter.
Email(value) == IF ~EmailMatch(value) THEN Rejected ELSE Accepted(value)

\* Address.value setter: no validation.
Address(value) == Accepted(value)

\* Name (Field.value setter): no validation.
Name(value) == Accepted(value)

RECURSIVE DigitsToInt(_)
DigitsToInt(s) ==
    IF s = <<>> THEN 0 ELSE DigitsToInt(SubSeq(s, 1, Len(s) - 1)) * 10 + DigitVal(s[Len(s)])

\* %m of strptime: 1[0-2]|0[1-9]|[1-9]
MonthTextOk(t) ==
    \/ Len(t) = 2 /\ t[1] = "1" /\ t[2] \in {"0", "1", "2"}
    \/ Len(t) = 2 /\ t[1] = "0" /\ t[2] \in DigitSet \ {"0"}
    \/ Len(t) = 1 /\ t[1] \in DigitSet \ {"0"}

\* %d of strptime: 3[0-1]|[1-2]\d|0[1-9]|[1-9]| [1-9]
DayTextOk(t) ==
    \/ Len(t) = 2 /\ t[1] = "3" /\ t[2] \in {"0", "1"}
    \/ Len(t) = 2 /\ t[1] \in {"1", "2"} /\ t[2] \in DigitSet
    \/ Len(t) = 2 /\ t[1] = "0" /\ t[2] \in DigitSet \ {"0"}
    \/ Len(t) = 1 /\ t[1] \in DigitSet \ {"0"}
    \/ Len(t) = 2 /\ t[1] = " " /\ t[2] \in DigitSet \ {"0"}

\* datetime.strptime(s, "%Y.%m.%d").date(): four digits, ".", a month text,
\* ".", a day text and nothing more; then the date must exist.
strptime_ymd(s) ==
    IF Len(s) < 8 \/ (\E i \in 1..4 : s[i] \notin DigitSet) \/ s[5] # "."
    THEN Rejected
    ELSE LET dots == {i \in 6..Len(s) : s[i] = "."}
         IN  IF dots = {} THEN Rejected
             ELSE LET k == CHOOSE i \in dots : \A j \in dots : i <= j
                      mt == SubSeq(s, 6, k - 1)
                      dt == SubSeq(s, k + 1, Len(s))
                  IN  IF ~MonthTextOk(mt) \/ ~DayTextOk(dt) THEN Rejected
                      ELSE LET y == DigitsToInt(SubSeq(s, 1, 4))
                               m == DigitsToInt(mt)
                               d == DigitsToInt(IF dt[1] = " " THEN Tail(dt) ELSE dt)
                           IN  IF ValidDate(y, m, d) THEN Accepted(<<y, m, d>>)
                               ELSE Rejected

\* Birthday.value setter.
Birthday(value) == strptime_ymd(value)

Pad2(n) == <<DigitChar(n \div 10), DigitChar(n % 10)>>

RECURSIVE IntToDigits(_)
IntToDigits(n) ==
    IF n < 10 THEN <<DigitChar(n)>> ELSE Append(IntToDigits(n \div 10), DigitChar(n % 10))

Pad4(n) ==
    <<DigitChar(n \div 1000), DigitChar((n \div 100) % 10),
      DigitChar((n \div 10) % 10), DigitChar(n % 10)>>

\* Birthday.__str__: date.strftime("%Y.%m.%d").  The C library's %Y pads a
\* year below 1000 to four digits on some platforms and not on others.
Birthday_str(d) ==
    {yt \o <<".">> \o Pad2(d[2]) \o <<".">> \o Pad2(d[3]) :
        yt \in IF d[1] < 1000 THEN {Pad4(d[1]), IntToDigits(d[1])} ELSE {Pad4(d[1])}}

-----------------------------------------------------------------------------
(* Field construction on its own: texts a user can type at a prompt, handed *)
(* to Phone, Email and Birthday.                                            *)

MaxPhoneInput == 11
MaxEmailLen == 6

DigitRun(n) == [i \in 1..n |-> DigitChar(i % 10)]
PhoneDefects == {"a", "-", " ", "+", Sup2}

\* Digit strings of every length up to MaxPhoneInput, the same with one
\* character replaced by a non-digit, and ten superscript digits.
PhoneInputs ==
    {DigitRun(n) : n \in 0..MaxPhoneInput}
    \cup {[DigitRun(t[1]) EXCEPT ![t[2]] = t[3]] :
            t \in {u \in (1..MaxPhoneInput) \X (1..MaxPhoneInput) \X PhoneDefects :
                     u[2] <= u[1]}}
    \cup {[i \in 1..PhoneLen |-> Sup2], [i \in 1..PhoneLen |-> "7"]}

EmailAlphabet == {"a", ".", "@", "_", "-"}
EmailExamples ==
    {<<"a", ".", "b", "@", "x", ".", "c", "o">>, <<"a", "@", "b">>, <<"a", "1", "@", "b", "2", ".", "c", "o">>, <<"A", "@", "B", ".", "C", "o">>, <<"a", "@", "b", ".", "c", "1">>, <<"a", " ", "b", "@", "x", ".", "c", "o">>,
     <<"a", "@", "b", ".", "c">>, <<"a", "_", "b", "@", "x", "-", "y", ".", "c", "o">>, <<"a", "@", "b", "_", "c", ".", "c", "o">>, <<"a", "-", "b", "@", "x", ".", "c", "o">>, <<"a", ".", "b", "@", "x", ".", "c", "o", " ">>, <<"a", "@", "@", "b", ".", "c", "o">>}

EmailInputs ==
    UNION {[1..n -> EmailAlphabet] : n \in 0..MaxEmailLen} \cup EmailExamples

YearTexts == {<<"2", "0", "2", "4">>, <<"2", "0", "2", "3">>, <<"0", "0", "0", "0">>, <<"0", "9", "9", "9">>, <<"2", "2", "4">>, <<"2", "0", "2", "4", "5">>, <<"2", "a", "2", "4">>}
MonthTexts == {<<"0", "2">>, <<"2">>, <<"1", "2">>, <<"1", "3">>, <<"0", "0">>, <<"0">>, <<"1">>, <<"0", "1", "2">>, <<"0", "4">>}
DayTexts ==
    {<<"2", "9">>, <<"3", "0">>, <<"2", "8">>, <<"3", "1">>, <<"9">>, <<"0", "9">>, <<" ", "9">>, <<"0", "0">>, <<"3", "2">>, <<"2", "9", "0">>,
     <<"9", " ">>, <<"0">>, <<"3", "a">>, <<"0", "1">>}
DateSeparators == {<<".">>, <<"-">>, <<>>}

BirthdayInputs ==
    {t[1] \o t[2] \o t[3] \o t[4] \o t[5] :
        t \in YearTexts \X DateSeparators \X MonthTexts \X DateSeparators \X DayTexts}

FieldInputs == PhoneInputs \cup EmailInputs \cup BirthdayInputs

NoField == [cls |-> "none", op |-> "none", ok |-> FALSE, value |-> None, text |-> None]

\* The parts of the state a specification does not use stay as constructed.
NoFile == [exists |-> FALSE, blob |-> <<>>]
NoCommand == [op |-> "none", name |-> <<>>, arg |-> <<>>, shown |-> {}]
NoRecord == [name |-> <<>>, phones |-> <<>>, birthday |-> None, email |-> None,
             address |-> None]
NoCall == [op |-> "none", arg |-> <<>>, arg2 |-> <<>>, res |-> "none", value |-> <<>>]
Epoch == <<2024, 1, 1>>

InitField ==
    /\ pc = "field"
    /\ file = NoFile
    /\ contact_book = <<>>
    /\ phone_book = <<>>
    /\ last = NoCommand
    /\ today = Epoch
    /\ notes = <<>>
    /\ notes_file = NoFile
    /\ record = NoRecord
    /\ ret = NoCall
    /\ inp \in FieldInputs
    /\ field = NoField

restOfField == <<pc, file, contact_book, phone_book, last, today, notes, notes_file,
                 record, ret>>

\* Phone(inp)
NewPhone ==
    /\ field.cls = "none"
    /\ LET r == Phone(inp)
       IN  field' = [cls |-> "Phone", op |-> "new", ok |-> r.ok, value |-> r.value,
                     text |-> r.value]
    /\ UNCHANGED <<inp, restOfField>>

\* phone.value = v on a Phone whose last call succeeded: a rejected value
\* raises and leaves the old one.
AssignPhone ==
    /\ field.cls = "Phone"
    /\ field.ok
    /\ \E v \in PhoneInputs :
          /\ inp' = v
          /\ LET r == Phone(v)
             IN  field' = [cls |-> "Phone", op |-> "set", ok |-> r.ok,
                           value |-> IF r.ok THEN r.value ELSE field.value,
                           text |-> IF r.ok THEN r.value ELSE field.value]
    /\ UNCHANGED restOfField

\* Email(inp)
NewEmail ==
    /\ field.cls = "none"
    /\ LET r == Email(inp)
       IN  field' = [cls |-> "Email", op |-> "new", ok |-> r.ok, value |-> r.value,
                     text |-> r.value]
    /\ UNCHANGED <<inp, restOfField>>

\* Birthday(inp), then str() of it
NewBirthday ==
    /\ field.cls = "none"
    /\ LET r == Birthday(inp)
       IN  IF r.ok
           THEN \E t \in Birthday_str(r.value) :
                    field' = [cls |-> "Birthday", op |-> "new", ok |-> TRUE,
                              value |-> r.value, text |-> t]
           ELSE field' = [cls |-> "Birthday", op |-> "new", ok |-> FALSE,
                          value |-> None, text |-> None]
    /\ UNCHANGED <<inp, restOfField>>

NextField == NewPhone \/ AssignPhone \/ NewEmail \/ NewBirthday

SpecField == InitField /\ [][NextField]_vars

-----------------------------------------------------------------------------
(* Claims about the field validators, checked under SpecField *)

AllDecimalDigits(s) == \A i \in 1..Len(s) : s[i] \in DigitSet

\* C8: Phone construction or assignment succeeds exactly when the value has
\* exactly 10 characters, all of them decimal digits, and then stores the
\* same string; every other string is rejected and nothing is stored.
C8_PhoneAcceptsExactlyTenDecimalDigits ==
    field.cls = "Phone" =>
        /\ field.ok <=> (Len(inp) = 10 /\ AllDecimalDigits(inp))
        /\ field.ok => field.value = inp
        /\ (~field.ok /\ field.op = "new") => field.value = None

\* What C8 says, for texts of ASCII digits and the other characters alone.
C8_HoldsWithoutSuperscripts ==
    (field.cls = "Phone" /\ Sup2 \notin Range(inp)) =>
        /\ field.ok <=> (Len(inp) = 10 /\ AllDecimalDigits(inp))
        /\ field.ok => field.value = inp

IsCalendarDate(y, m, d) ==
    /\ y >= 1
    /\ m \in 1..12
    /\ d >= 1
    /\ d <= IF m = 2
            THEN (IF y % 4 = 0 /\ (y % 100 # 0 \/ y % 400 = 0) THEN 29 ELSE 28)
            ELSE IF m \in {4, 6, 9, 11} THEN 30 ELSE 31

FourDigits(s) == Len(s) >= 4 /\ \A i \in 1..4 : s[i] \in DigitSet
YearOf(s) == DigitVal(s[1]) * 1000 + DigitVal(s[2]) * 100 + DigitVal(s[3]) * 10 + DigitVal(s[4])

\* The text is YYYY.MM.DD, zero-padded, of the calendar date <<y, m, d>>.
StrictDateText(s, m, d) ==
    /\ FourDigits(s)
    /\ IsCalendarDate(YearOf(s), m, d)
    /\ s = SubSeq(s, 1, 4) \o <<".">> \o Pad2(m) \o <<".">> \o Pad2(d)

\* The ways strptime reads month m and day d: two digits, or one digit when
\* below 10, and for a day below 10 also a space and the digit.
MonthWritings(m) == {Pad2(m)} \cup (IF m < 10 THEN {<<DigitChar(m)>>} ELSE {})
DayWritings(d) ==
    {Pad2(d)} \cup (IF d < 10 THEN {<<DigitChar(d)>>, <<" ", DigitChar(d)>>} ELSE {})

LenientDateText(s, m, d) ==
    /\ FourDigits(s)
    /\ IsCalendarDate(YearOf(s), m, d)
    /\ \E mt \in MonthWritings(m), dt \in DayWritings(d) :
          s = SubSeq(s, 1, 4) \o <<".">> \o mt \o <<".">> \o dt

EmailForm(s) ==
    \E i \in 2..Len(s) :
        \E j \in (i + 2)..(Len(s) - 2) :
            /\ s[i] = "@"
            /\ s[j] = "."
            /\ \A k \in 1..(i - 1) : s[k] \in Letters \cup DigitSet \cup {".", "_"}
            /\ \A k \in (i + 1)..(j - 1) : s[k] \in Letters \cup DigitSet \cup {".", "-"}
            /\ \A k \in (j + 1)..Len(s) : s[k] \in Letters

-----------------------------------------------------------------------------
(* Record.days_to_birthday on one record, for every current date of a few   *)
(* years and every birthday text of a leap year.                            *)

\* Record.days_to_birthday(): "none" (no birthday), "today", "days" with the
\* number, or "ValueError" raised by date.replace.
days_to_birthday(birthday, date_today) ==
    IF IsNone(birthday) THEN [res |-> "none", value |-> 0]
    ELSE LET this_year == date_replace_year(Val(birthday), date_today[1])
         IN  IF ~this_year.ok THEN [res |-> "ValueError", value |-> 0]
             ELSE IF date_today = this_year.value THEN [res |-> "today", value |-> 0]
             ELSE IF toordinal(this_year.value) <= toordinal(date_today) - 1
                  THEN LET next_year == date_replace_year(this_year.value, date_today[1] + 1)
                       IN  IF ~next_year.ok THEN [res |-> "ValueError", value |-> 0]
                           ELSE [res |-> "days",
                                 value |-> toordinal(next_year.value) - toordinal(date_today)]
                  ELSE [res |-> "days",
                        value |-> toordinal(this_year.value) - toordinal(date_today)]

\* Record.add_birthday(text): the birthday attribute after the call.
add_birthday(rec, text) ==
    LET b == Birthday(text)
    IN  [ok |-> b.ok,
         rec |-> IF b.ok THEN [rec EXCEPT !.birthday = Some(b.value)] ELSE rec]

MaxYearSpan == 1

DatesOfYear(y) ==
    {<<y, md[1], md[2]>> : md \in {x \in (1..12) \X (1..31) : ValidDate(y, x[1], x[2])}}
\* Every day of 2023 (before a leap year), of 2024 (a leap year) and on.
Todays == UNION {DatesOfYear(y) : y \in 2023..(2023 + MaxYearSpan)}

\* Every text 2000.MM.DD with a day up to 31, existing or not.
BirthdayTexts ==
    {Pad4(2000) \o <<".">> \o Pad2(md[1]) \o <<".">> \o Pad2(md[2]) :
        md \in (1..12) \X (1..31)}

InitBirthday ==
    /\ pc = "record"
    /\ file = NoFile
    /\ contact_book = <<>>
    /\ phone_book = <<>>
    /\ last = NoCommand
    /\ today \in Todays
    /\ notes = <<>>
    /\ notes_file = NoFile
    /\ record = NoRecord
    /\ ret = NoCall
    /\ inp = <<>>
    /\ field = NoField

restOfBirthday == <<pc, file, contact_book, phone_book, last, today, notes, notes_file, field>>

\* record.add_birthday(text) on a record without a birthday
CallAddBirthday ==
    /\ ret.op = "none"
    /\ \E text \in BirthdayTexts :
          LET r == add_birthday(record, text)
          IN  /\ inp' = text
              /\ record' = r.rec
              /\ ret' = [NoCall EXCEPT !.op = "add_birthday",
                                       !.res = IF r.ok THEN "ok" ELSE "ValueError"]
    /\ UNCHANGED restOfBirthday

\* record.days_to_birthday()
CallDaysToBirthday ==
    /\ ret.op \in {"none", "add_birthday"}
    /\ LET r == days_to_birthday(record.birthday, today)
       IN  ret' = [NoCall EXCEPT !.op = "days_to_birthday", !.res = r.res,
                                 !.value = <<r.value>>]
    /\ UNCHANGED <<inp, record, restOfBirthday>>

NextBirthday == CallAddBirthday \/ CallDaysToBirthday

SpecBirthday == InitBirthday /\ [][NextBirthday]_vars

-----------------------------------------------------------------------------
(* Claims about days_to_birthday, checked under SpecBirthday *)

\* The calendar day after and before a date.
NextDay(t) ==
    IF IsCalendarDate(t[1], t[2], t[3] + 1) THEN <<t[1], t[2], t[3] + 1>>
    ELSE IF t[2] < 12 THEN <<t[1], t[2] + 1, 1>> ELSE <<t[1] + 1, 1, 1>>
PrevDay(t) ==
    IF t[3] > 1 THEN <<t[1], t[2], t[3] - 1>>
    ELSE IF t[2] > 1
         THEN <<t[1], t[2] - 1,
                CHOOSE d \in 28..31 : IsCalendarDate(t[1], t[2] - 1, d)
                                      /\ ~IsCalendarDate(t[1], t[2] - 1, d + 1)>>
         ELSE <<t[1] - 1, 12, 31>>
MonthDay(t) == <<t[2], t[3]>>

\* The Julian day number of a calendar date.
JulianDay(t) ==
    LET a == (14 - t[2]) \div 12
        y == t[1] + 4800 - a
        m == t[2] + 12 * a - 3
    IN  t[3] + (153 * m + 2) \div 5 + 365 * y + y \div 4 - y \div 100 + y \div 400 - 32045

\* The first date after t with month and day md.
NextOccurrence(t, md) ==
    LET y == CHOOSE y \in t[1]..(t[1] + 8) :
                 /\ IsCalendarDate(y, md[1], md[2])
                 /\ JulianDay(<<y, md[1], md[2]>>) > JulianDay(t)
                 /\ \A z \in t[1]..(y - 1) :
                        ~(IsCalendarDate(z, md[1], md[2])
                          /\ JulianDay(<<z, md[1], md[2]>>) > JulianDay(t))
    IN  <<y, md[1], md[2]>>

Called == ret.op = "days_to_birthday"
Result == IF ret.res = "days" THEN ret.value[1] ELSE 0

\* C4: days_to_birthday returns the 'today' result when the birthday's
\* month/day is today's, 1 when it is the day after today, 364 or 365 when it
\* is yesterday's, and the 'no birthday' result for a record without birthday.
C4_DaysToBirthdayAtTheBoundaries ==
    Called =>
        IF IsNone(record.birthday) THEN ret.res = "none"
        ELSE LET md == MonthDay(Val(record.birthday))
             IN  /\ md = MonthDay(today) => ret.res = "today"
                 /\ md = MonthDay(NextDay(today)) => (ret.res = "days" /\ Result = 1)
                 /\ md = MonthDay(PrevDay(today)) =>
                        (ret.res = "days" /\ Result \in {364, 365})

\* What C4 says, for the birthdays other than February 29.
C4_HoldsExceptFebruary29 ==
    (Called /\ ~IsNone(record.birthday) /\ MonthDay(Val(record.birthday)) # <<2, 29>>) =>
        LET md == MonthDay(Val(record.birthday))
        IN  /\ md = MonthDay(today) => ret.res = "today"
            /\ md = MonthDay(NextDay(today)) => (ret.res = "days" /\ Result = 1)
            /\ md = MonthDay(PrevDay(today)) => (ret.res = "days" /\ Result \in {364, 365})

\* C5: for every birthday the validator accepts and every current date,
\* days_to_birthday raises nothing, and a result other than 'today' is the
\* number of days, between 1 and 366, from today to the next occurrence of the
\* birthday's month/day.
C5_DaysToBirthdayIsDaysToNextOccurrence ==
    (Called /\ ~IsNone(record.birthday)) =>
        /\ ret.res \in {"today", "days"}
        /\ ret.res = "days" =>
              /\ Result \in 1..366
              /\ Result = JulianDay(NextOccurrence(today, MonthDay(Val(record.birthday))))
                          - JulianDay(today)

\* What C5 says, for the birthdays other than February 29.
C5_HoldsExceptFebruary29 ==
    (Called /\ ~IsNone(record.birthday) /\ MonthDay(Val(record.birthday)) # <<2, 29>>) =>
        /\ ret.res \in {"today", "days"}
        /\ ret.res = "today" <=> MonthDay(Val(record.birthday)) = MonthDay(today)
        /\ ret.res = "days" =>
              /\ Result \in 1..366
              /\ Result = JulianDay(NextOccurrence(today, MonthDay(Val(record.birthday))))
                          - JulianDay(today)

-----------------------------------------------------------------------------
(* Record and AddressBook (src/record.py) *)

\* Record.__init__
Record(name) ==
    [name |-> Name(name).value, phones |-> <<>>, birthday |-> None, email |-> None,
     address |-> None]

\* Record.add_phone that skips a value already in the list.
add_phone_Deduplicating(rec, value) ==
    LET p == Phone(value)
    IN  [ok |-> p.ok,
         rec |-> IF p.ok /\ p.value \notin Range(rec.phones)
                 THEN [rec EXCEPT !.phones = Append(@, p.value)] ELSE rec]

\* Record.add_phone: [ok, rec]; not ok is the validator's ValueError.
add_phone(rec, value) ==
    LET p == Phone(value)
    IN  [ok |-> p.ok,
         rec |-> IF p.ok THEN [rec EXCEPT !.phones = Append(@, p.value)] ELSE rec]

\* Record.add_email that keeps an email already set.
add_email_KeepsExisting(rec, value) ==
    LET f == Email(value)
    IN  [ok |-> f.ok,
         rec |-> IF f.ok /\ IsNone(rec.email) THEN [rec EXCEPT !.email = Some(f.value)]
                 ELSE rec]

\* Record.add_email
add_email(rec, value) ==
    LET f == Email(value)
    IN  [ok |-> f.ok, rec |-> IF f.ok THEN [rec EXCEPT !.email = Some(f.value)] ELSE rec]

\* Record.add_address
add_address(rec, value) ==
    LET f == Address(value)
    IN  [ok |-> f.ok, rec |-> IF f.ok THEN [rec EXCEPT !.address = Some(f.value)] ELSE rec]

RemoveAt(s, i) == SubSeq(s, 1, i - 1) \o SubSeq(s, i + 1, Len(s))
FirstIndex(s, v) == CHOOSE i \in 1..Len(s) : s[i] = v /\ \A j \in 1..(i - 1) : s[j] # v

\* Record.remove_phone that removes every phone equal to the value.
remove_phone_AllMatches(rec, phone) ==
    IF phone \in Range(rec.phones)
    THEN [res |-> "deleted",
          rec |-> [rec EXCEPT !.phones = SelectSeq(@, LAMBDA p : p # phone)]]
    ELSE [res |-> "not found", rec |-> rec]

\* Record.remove_phone: the first phone equal to the value goes.
remove_phone(rec, phone) ==
    IF phone \in Range(rec.phones)
    THEN [res |-> "deleted",
          rec |-> [rec EXCEPT !.phones = RemoveAt(@, FirstIndex(@, phone))]]
    ELSE [res |-> "not found", rec |-> rec]

\* "; ".join(p.value for p in self.phones)
RECURSIVE join_phones(_)
join_phones(phones) ==
    IF phones = <<>> THEN <<>>
    ELSE IF Len(phones) = 1 THEN phones[1]
    ELSE phones[1] \o <<";", " ">> \o join_phones(Tail(phones))

PhonesLabel == <<"P", "h", "o", "n", "e", "s", ":", " ">>

\* Record.edit_phone that replaces every phone equal to old_phone.
edit_phone_AllMatches(rec, old_phone, new_phone) ==
    IF old_phone \notin Range(rec.phones) THEN [res |-> "None", rec |-> rec, text |-> <<>>]
    ELSE IF ~Phone(new_phone).ok THEN [res |-> "ValueError", rec |-> rec, text |-> <<>>]
    ELSE LET phones == [i \in 1..Len(rec.phones) |->
                           IF rec.phones[i] = old_phone THEN Phone(new_phone).value
                           ELSE rec.phones[i]]
         IN  [res |-> "Phones", rec |-> [rec EXCEPT !.phones = phones],
              text |-> PhonesLabel \o join_phones(phones)]

\* Record.edit_phone: res "Phones" (text, the joined list, is returned),
\* "None" (no phone equals old_phone) or "ValueError" (the setter rejects
\* new_phone).
edit_phone(rec, old_phone, new_phone) ==
    IF old_phone \notin Range(rec.phones) THEN [res |-> "None", rec |-> rec, text |-> <<>>]
    ELSE IF ~Phone(new_phone).ok THEN [res |-> "ValueError", rec |-> rec, text |-> <<>>]
    ELSE LET phones == [rec.phones EXCEPT ![FirstIndex(rec.phones, old_phone)] =
                                              Phone(new_phone).value]
         IN  [res |-> "Phones", rec |-> [rec EXCEPT !.phones = phones],
              text |-> PhonesLabel \o join_phones(phones)]

\* Record.find_phone
find_phone(rec, phone) == IF phone \in Range(rec.phones) THEN Some(phone) ELSE None

\* dict: the items in insertion order.
Keys(d) == {d[i].key : i \in 1..Len(d)}
KeyIndex(d, k) == CHOOSE i \in 1..Len(d) : d[i].key = k
dict_get(d, k) == d[KeyIndex(d, k)].rec
dict_set_KeepsExisting(d, k, v) ==
    IF k \in Keys(d) THEN d ELSE Append(d, [key |-> k, rec |-> v])
dict_set(d, k, v) ==
    IF k \in Keys(d) THEN [d EXCEPT ![KeyIndex(d, k)].rec = v]
    ELSE Append(d, [key |-> k, rec |-> v])
dict_pop(d, k) == RemoveAt(d, KeyIndex(d, k))

\* AddressBook.add_record with the key put in lower case.
add_record_LowerKey(data, rec) == dict_set(data, str_lower(rec.name), rec)

\* AddressBook.add_record
add_record(data, rec) == dict_set(data, rec.name, rec)

\* AddressBook.find: the record or None.
find(data, name) == IF name \in Keys(data) THEN Some(dict_get(data, name)) ELSE None

\* AddressBook.delete with exact keys replaced by a comparison ignoring case.
delete_IgnoringCase(data, name) ==
    IF \E k \in Keys(data) : str_lower(k) = str_lower(name)
    THEN [res |-> "deleted",
          data |-> dict_pop(data, CHOOSE k \in Keys(data) : str_lower(k) = str_lower(name))]
    ELSE [res |-> "not found", data |-> data]

\* AddressBook.delete
delete(data, name) ==
    IF name \in Keys(data) THEN [res |-> "deleted", data |-> dict_pop(data, name)]
    ELSE [res |-> "not found", data |-> data]

\* pickle of a date: its __reduce__ state, the bytes year-high, year-low,
\* month, day.
date_bytes(d) == <<d[1] \div 256, d[1] % 256, d[2], d[3]>>
date_from_bytes(b) == <<b[1] * 256 + b[2], b[3], b[4]>>

\* pickle.dump of one Record: its attributes in order, phones one by one.
dump_record(rec) ==
    <<[op |-> "NAME", arg |-> rec.name]>>
    \o [i \in 1..Len(rec.phones) |-> [op |-> "PHONE", arg |-> rec.phones[i]]]
    \o <<[op |-> "BIRTHDAY",
          arg |-> IF IsNone(rec.birthday) THEN <<>> ELSE date_bytes(Val(rec.birthday))],
         [op |-> "EMAIL", arg |-> rec.email],
         [op |-> "ADDRESS", arg |-> rec.address]>>

\* pickle.dump(self.data, file): for every item the key, the value, SETITEM.
RECURSIVE pickle_dump(_)
pickle_dump(data) ==
    IF data = <<>> THEN <<>>
    ELSE <<[op |-> "KEY", arg |-> Head(data).key]>> \o dump_record(Head(data).rec)
         \o <<[op |-> "SETITEM", arg |-> <<>>]>> \o pickle_dump(Tail(data))

\* load_step that pushes each phone at the front of the list.
load_step_PhonesReversed(acc, t) ==
    CASE t.op = "KEY" -> [acc EXCEPT !.key = t.arg, !.rec = Record(<<>>)]
      [] t.op = "NAME" -> [acc EXCEPT !.rec.name = t.arg]
      [] t.op = "PHONE" -> [acc EXCEPT !.rec.phones = <<t.arg>> \o @]
      [] t.op = "BIRTHDAY" ->
            [acc EXCEPT !.rec.birthday =
                            IF t.arg = <<>> THEN None ELSE Some(date_from_bytes(t.arg))]
      [] t.op = "EMAIL" -> [acc EXCEPT !.rec.email = t.arg]
      [] t.op = "ADDRESS" -> [acc EXCEPT !.rec.address = t.arg]
      [] OTHER -> [acc EXCEPT !.data = dict_set(@, acc.key, acc.rec)]

\* One instruction of pickle.load: acc is the dict built so far and the item
\* under construction.
load_step(acc, t) ==
    CASE t.op = "KEY" -> [acc EXCEPT !.key = t.arg, !.rec = Record(<<>>)]
      [] t.op = "NAME" -> [acc EXCEPT !.rec.name = t.arg]
      [] t.op = "PHONE" -> [acc EXCEPT !.rec.phones = Append(@, t.arg)]
      [] t.op = "BIRTHDAY" ->
            [acc EXCEPT !.rec.birthday =
                            IF t.arg = <<>> THEN None ELSE Some(date_from_bytes(t.arg))]
      [] t.op = "EMAIL" -> [acc EXCEPT !.rec.email = t.arg]
      [] t.op = "ADDRESS" -> [acc EXCEPT !.rec.address = t.arg]
      [] OTHER -> [acc EXCEPT !.data = dict_set(@, acc.key, acc.rec)]

RECURSIVE load_run(_, _)
load_run(acc, blob) ==
    IF blob = <<>> THEN acc ELSE load_run(load_step(acc, Head(blob)), Tail(blob))

\* pickle.load(file)
pickle_load(blob) == load_run([data |-> <<>>, key |-> <<>>, rec |-> Record(<<>>)], blob).data

\* AddressBook.write_to_file: the file after the call.
write_to_file(data) == [exists |-> TRUE, blob |-> pickle_dump(data)]

\* AddressBook.read_from_file: self.data after the call.
read_from_file(f) == pickle_load(f.blob)

-----------------------------------------------------------------------------
(* The store on its own: an AddressBook is filled and emptied through
   add_record and delete, written to its file, and the file is read into a
   fresh AddressBook (contact_book). *)

MaxContacts == 2

Ann == <<"A", "n", "n">>
AnnLower == <<"a", "n", "n">>
Bob == <<"B", "o", "b">>
BookNames == {Ann, AnnLower, Bob}

PhoneA == DigitRun(10)
PhoneB == <<"0", "9", "8", "7", "6", "5", "4", "3", "2", "1">>
EmailA == <<"a", ".", "b", "@", "x", ".", "c", "o">>
AddressA == <<"K", "y", "i", "v", " ", "1">>
BirthdayA == <<"1", "9", "9", "9", ".", "1", "2", ".", "3", "1">>

\* Records as the Record methods build them.
WithPhones(name) == add_phone(add_phone(Record(name), PhoneA).rec, PhoneB).rec
BookRecords(name) ==
    { Record(name),
      add_phone(Record(name), PhoneA).rec,
      WithPhones(name),
      add_phone(add_phone(Record(name), PhoneB).rec, PhoneA).rec,
      add_birthday(Record(name), BirthdayA).rec,
      add_address(add_email(add_birthday(WithPhones(name), BirthdayA).rec, EmailA).rec,
                  AddressA).rec }

InitBook ==
    /\ pc = "book"
    /\ file = NoFile
    /\ contact_book = <<>>
    /\ phone_book = <<>>
    /\ last = NoCommand
    /\ today = Epoch
    /\ notes = <<>>
    /\ notes_file = NoFile
    /\ record = NoRecord
    /\ inp = <<>>
    /\ field = NoField
    /\ ret = NoCall

restOfBook == <<pc, last, today, notes, notes_file, record, inp, field>>

\* phone_book.add_record(record)
BookAddRecord ==
    /\ pc = "book" /\ ~file.exists
    /\ \E name \in BookNames : \E rec \in BookRecords(name) :
          /\ name \in Keys(phone_book) \/ Len(phone_book) < MaxContacts
          /\ phone_book' = add_record(phone_book, rec)
          /\ ret' = [NoCall EXCEPT !.op = "add_record", !.arg = name, !.value = <<rec>>]
    /\ UNCHANGED <<file, contact_book>>
    /\ UNCHANGED restOfBook

\* phone_book.delete(name)
BookDelete ==
    /\ pc = "book" /\ ~file.exists
    /\ \E name \in BookNames :
          LET r == delete(phone_book, name)
          IN  /\ phone_book' = r.data
              /\ ret' = [NoCall EXCEPT !.op = "delete", !.arg = name, !.res = r.res]
    /\ UNCHANGED <<file, contact_book>>
    /\ UNCHANGED restOfBook

\* phone_book.find(name)
BookFind ==
    /\ pc = "book" /\ ~file.exists
    /\ \E name \in BookNames :
          ret' = [NoCall EXCEPT !.op = "find", !.arg = name, !.res = "None",
                                !.value = find(phone_book, name)]
    /\ UNCHANGED <<phone_book, file, contact_book>>
    /\ UNCHANGED restOfBook

\* phone_book.write_to_file()
BookWriteToFile ==
    /\ pc = "book" /\ ~file.exists
    /\ file' = write_to_file(phone_book)
    /\ ret' = [NoCall EXCEPT !.op = "write_to_file"]
    /\ UNCHANGED <<phone_book, contact_book>>
    /\ UNCHANGED restOfBook

\* contact_book = AddressBook(); contact_book.read_from_file()
BookReadFromFile ==
    /\ pc = "book" /\ file.exists /\ ret.op = "write_to_file"
    /\ contact_book' = read_from_file(file)
    /\ ret' = [NoCall EXCEPT !.op = "read_from_file"]
    /\ UNCHANGED <<phone_book, file>>
    /\ UNCHANGED restOfBook

NextBook ==
    BookAddRecord \/ BookDelete \/ BookFind \/ BookWriteToFile \/ BookReadFromFile

SpecBook == InitBook /\ [][NextBook]_vars

\* Two mappings with the same names and, name by name, the same fields.
SameContacts(a, b) ==
    /\ Keys(a) = Keys(b)
    /\ \A k \in Keys(a) :
          LET x == dict_get(a, k)
              y == dict_get(b, k)
          IN  /\ x.phones = y.phones
              /\ x.birthday = y.birthday
              /\ x.email = y.email
              /\ x.address = y.address

\* C6: a store written with write_to_file and read with read_from_file into a
\* fresh store has the same names and, for each name, the same phones in
\* order, birthday, email and address.
C6_StoreRoundTrip ==
    ret.op = "read_from_file" => SameContacts(contact_book, phone_book)

C6_Witness ==
    /\ ret.op = "read_from_file"
    /\ Len(contact_book) = 2
    /\ \E k \in Keys(contact_book) :
          LET x == dict_get(contact_book, k)
          IN  /\ x.phones = <<PhoneA, PhoneB>>
              /\ x.birthday = Some(<<1999, 12, 31>>)
              /\ x.email = Some(EmailA)
              /\ x.address = Some(AddressA)

Without(d, k) == SelectSeq(d, LAMBDA it : it.key # k)

\* C7: delete(name) removes exactly the entry under the key name and reports
\* that it was found; when name is not a key it reports not found, raises
\* nothing and leaves the store as it was.
C7_DeleteByExactKey ==
    [][ret'.op = "delete" =>
          IF ret'.arg \in Keys(phone_book)
          THEN ret'.res = "deleted" /\ phone_book' = Without(phone_book, ret'.arg)
          ELSE ret'.res = "not found" /\ phone_book' = phone_book]_vars

C7_Witness ==
    /\ ret.op = "delete"
    /\ ret.res = "not found"
    /\ \E k \in Keys(phone_book) : str_lower(k) = str_lower(ret.arg)

-----------------------------------------------------------------------------
(* The menus (src/main.py, src/assistant.py).  pc is the menu or prompt the
   program waits at; contact_book is the phone_book of the ContactAssistant of
   main.py, phone_book the one of the AddAssistant, EditAssistant or
   DeleteAssistant at work; last is the command that ran last with what was
   typed and shown; ret.res is how its handler ended. *)

MaxPhones == 1

MenuNames == {Ann, Bob}
BadPhone == <<"1", "2", "3">>
BadEmail == <<"a", "@", "b">>
BadDate == <<"2", "9", ".", "0", "2", ".", "2", "0", "0", "0">>
BirthdayLeap == <<"2", "0", "0", "0", ".", "0", "2", ".", "2", "9">>
Enter == <<>>
MenuTodays == {<<2024, 2, 1>>, <<2023, 6, 1>>}

\* str.isalpha on the letters used here.
str_isalpha(s) == s # <<>> /\ \A i \in 1..Len(s) : s[i] \in Letters

\* int(s) raises ValueError unless every character is a decimal digit.
int_ok(s) == s # <<>> /\ \A i \in 1..Len(s) : s[i] \in DigitSet

\* ContactAssistant.table_print raises what record.days_to_birthday() raises.
table_print_raises(rec, date_today) ==
    days_to_birthday(rec.birthday, date_today).res = "ValueError"

\* find_record that looks in the phone_book without reading the file.
find_record_WithoutReading(book, f, name) == [book |-> book, record |-> find(book, name)]

\* ContactAssistant.find_record for the typed name: the phone_book after the
\* call and the record found, or None.
find_record(book, f, name) ==
    LET data == IF f.exists THEN read_from_file(f) ELSE book
    IN  [book |-> data, record |-> find(data, name)]

\* ContactAssistant.save_record that leaves the file as it is.
save_record_WithoutWrite(book, f, rec) ==
    LET data == add_record(IF f.exists THEN read_from_file(f) ELSE book, rec)
    IN  [book |-> data, file |-> f]

\* save_record that writes the file before it adds the record.
save_record_WritesBeforeAdding(book, f, rec) ==
    LET data == IF f.exists THEN read_from_file(f) ELSE book
    IN  [book |-> add_record(data, rec), file |-> write_to_file(data)]

\* ContactAssistant.save_record: the phone_book and the file after the call.
save_record(book, f, rec) ==
    LET data == add_record(IF f.exists THEN read_from_file(f) ELSE book, rec)
    IN  [book |-> data, file |-> write_to_file(data)]

\* What input_error returns for a caught ValueError.
IncorrectInformation == "Incorrect information entered"

Init ==
    /\ pc = "main"
    /\ file = NoFile
    /\ contact_book = <<>>
    /\ phone_book = <<>>
    /\ last = NoCommand
    /\ today \in MenuTodays
    /\ notes = <<>>
    /\ notes_file = NoFile
    /\ record = NoRecord
    /\ inp = <<>>
    /\ field = NoField
    /\ ret = NoCall

\* A command handler returns to the loop of main.py.
Done(cmd, name, arg, shown, res) ==
    /\ pc' = "main"
    /\ last' = [op |-> cmd, name |-> name, arg |-> arg, shown |-> shown]
    /\ ret' = [NoCall EXCEPT !.op = cmd, !.res = res]
    /\ record' = NoRecord

\* An exception leaves the handler and the loop of main.py: the process ends
\* with a traceback.
Crash(cmd, name, arg, shown, exc) ==
    /\ pc' = "crashed"
    /\ last' = [op |-> cmd, name |-> name, arg |-> arg, shown |-> shown]
    /\ ret' = [NoCall EXCEPT !.op = cmd, !.res = exc]
    /\ record' = NoRecord

\* The end of a handler decorated with input_error that prints the contact
\* with table_print and then the messages in shown.
DonePrinting(cmd, name, arg, rec, shown) ==
    IF table_print_raises(rec, today)
    THEN Done(cmd, name, arg, {}, IncorrectInformation)
    ELSE Done(cmd, name, arg, shown, "None")

\* main.py: CONTACT MENU is selected, ContactAssistant.handler reads the file
\* and builds its three sub-assistants, each with an empty phone_book.
MainContactMenu ==
    /\ pc = "main"
    /\ pc' = "contact"
    /\ contact_book' = IF file.exists THEN read_from_file(file) ELSE contact_book
    /\ phone_book' = <<>>
    /\ last' = NoCommand
    /\ ret' = NoCall
    /\ UNCHANGED <<file, today, notes, notes_file, record, inp, field>>

\* ContactAssistant.handler: ADD, EDIT, DELETE or SHOW ALL is selected.
ContactSelect ==
    /\ pc = "contact"
    /\ pc' \in {"add", "edit", "delete", "show_all"}
    /\ UNCHANGED <<file, contact_book, phone_book, last, today, notes, notes_file,
                   record, inp, field, ret>>

\* RETURN TO MAIN MENU of any contact menu: an Assistant is constructed and
\* the handler returns.
ReturnToMainMenu ==
    /\ pc \in {"contact", "add", "edit", "delete"}
    /\ Done("RETURN TO MAIN MENU", <<>>, <<>>, {}, "None")
    /\ UNCHANGED <<file, contact_book, phone_book, today, notes, notes_file, inp, field>>

\* ExitAssistant.handler: exit() after two attribute references that call
\* nothing.  The process and the stores in its memory are gone, the file
\* stays as it was.
Exit ==
    /\ pc \in {"main", "contact", "add", "edit", "delete"}
    /\ pc' = "exited"
    /\ last' = [NoCommand EXCEPT !.op = "EXIT", !.shown = {"Good bye!"}]
    /\ ret' = [NoCall EXCEPT !.op = "EXIT", !.res = "SystemExit"]
    /\ contact_book' = <<>>
    /\ phone_book' = <<>>
    /\ UNCHANGED <<file, today, notes, notes_file, record, inp, field>>

ShowAllInputs == {Enter, <<"1">>, <<"0">>, <<Sup2>>, <<"a">>}

\* ContactAssistant.show_all, one line typed at its prompt.
ShowAll ==
    /\ pc = "show_all"
    /\ \E item_number \in ShowAllInputs :
          LET raising == {i \in 1..Len(contact_book) :
                              table_print_raises(contact_book[i].rec, today)}
          IN  IF str_isdigit(item_number)
              THEN IF contact_book # <<>>
                   THEN IF ~int_ok(item_number)
                        THEN Crash("show_all", <<>>, item_number, {}, "ValueError")
                        ELSE IF 1 \in raising
                        THEN Crash("show_all", <<>>, item_number, {}, "ValueError")
                        ELSE IF DigitsToInt(item_number) = 0
                        THEN Crash("show_all", <<>>, item_number, {}, "ZeroDivisionError")
                        ELSE IF raising # {}
                        THEN Crash("show_all", <<>>, item_number, {}, "ValueError")
                        ELSE Done("show_all", <<>>, item_number, {"table"}, "None")
                   ELSE /\ last' = [NoCommand EXCEPT !.op = "show_all",
                                       !.arg = item_number, !.shown = {"No contacts."}]
                        /\ UNCHANGED <<pc, ret, record>>
              ELSE IF str_isalpha(item_number)
              THEN /\ last' = [NoCommand EXCEPT !.op = "show_all", !.arg = item_number,
                                  !.shown = {"You entered letters"}]
                   /\ UNCHANGED <<pc, ret, record>>
              ELSE IF contact_book = <<>>
              THEN Done("show_all", <<>>, item_number, {"No contacts."}, "None")
              ELSE IF raising # {}
              THEN Crash("show_all", <<>>, item_number, {}, "ValueError")
              ELSE Done("show_all", <<>>, item_number, {"table"}, "None")
    /\ UNCHANGED <<file, contact_book, phone_book, today, notes, notes_file, inp, field>>

\* self.save_record(rec) by the sub-assistant at work.
Save(rec) ==
    \E s \in {save_record(phone_book, file, rec)} :
        phone_book' = s.book /\ file' = s.file

\* The same after find_record has read the file into book.
SaveIn(book, rec) ==
    \E s \in {save_record(book, file, rec)} : phone_book' = s.book /\ file' = s.file

\* The command goes on to its next prompt; shown is what the last line
\* typed made it print.
Prompt(position, rec, shown) ==
    /\ pc' = position
    /\ record' = rec
    /\ last' = [last EXCEPT !.shown = shown]
    /\ UNCHANGED ret

\* AddAssistant.add_contact up to its first prompt after the name.
AddContact ==
    /\ pc = "add"
    /\ \E name \in MenuNames :
          /\ pc' = "add_phone"
          /\ record' = Record(name)
          /\ last' = [NoCommand EXCEPT !.op = "add_contact", !.name = name]
    /\ UNCHANGED <<file, contact_book, phone_book, today, notes, notes_file, inp, field, ret>>

AddMenuCommands ==
    {"add_phone_menu", "add_birthday_menu", "add_email_menu", "add_address_menu"}

\* add_phone_menu, add_birthday_menu, add_email_menu, add_address_menu up to
\* the prompt of the field: find_record, then the test of the field.
AddMenu ==
    /\ pc = "add"
    /\ \E cmd \in AddMenuCommands, name \in MenuNames :
          \E fr \in {find_record(phone_book, file, name)} :
          LET rec == Val(fr.record)
              present ==
                  CASE cmd = "add_phone_menu" -> None
                    [] cmd = "add_birthday_menu" -> rec.birthday
                    [] cmd = "add_email_menu" -> rec.email
                    [] cmd = "add_address_menu" -> rec.address
              position ==
                  CASE cmd = "add_phone_menu" -> "add_phone"
                    [] cmd = "add_birthday_menu" -> "add_birthday"
                    [] cmd = "add_email_menu" -> "add_email"
                    [] cmd = "add_address_menu" -> "add_address"
          IN  /\ phone_book' = fr.book
              /\ IF IsNone(fr.record)
                 THEN Done(cmd, name, <<>>, {"The contact was not found."}, "None")
                 ELSE IF IsNone(present)
                 THEN /\ pc' = position
                      /\ record' = rec
                      /\ last' = [NoCommand EXCEPT !.op = cmd, !.name = name]
                      /\ ret' = NoCall
                 ELSE Done(cmd, name, <<>>, {"This contact has it."}, "None")
    /\ UNCHANGED <<file, contact_book, today, notes, notes_file, inp, field>>

\* AddAssistant.add_phone, one line typed at its prompt.
AddPhone ==
    /\ pc = "add_phone"
    /\ \E phone \in {Enter, PhoneA, PhoneB, BadPhone} :
          LET r == add_phone(record, phone)
          IN  \/ /\ phone = Enter
                 /\ IF last.op = "add_contact"
                    THEN Prompt("add_birthday", record, {})
                    ELSE DonePrinting(last.op, last.name, <<>>, record, {"table"})
                 /\ UNCHANGED <<phone_book, file>>
              \/ /\ phone # Enter /\ r.ok /\ Len(record.phones) < MaxPhones
                 /\ Save(r.rec)
                 /\ Prompt("add_phone", r.rec, {"The phone number has been added."})
              \/ /\ phone # Enter /\ ~r.ok
                 /\ Prompt("add_phone", record, {"The phone number should be digits only"})
                 /\ UNCHANGED <<phone_book, file>>
    /\ UNCHANGED <<contact_book, today, notes, notes_file, inp, field>>

\* AddAssistant.add_birthday, one line typed at its prompt.
AddBirthday ==
    /\ pc = "add_birthday"
    /\ \E birth \in {Enter, BirthdayLeap, BadDate} :
          LET r == add_birthday(record, birth)
              rec == IF birth = Enter THEN record ELSE r.rec
              shown == IF birth = Enter THEN {} ELSE {"The date of birth has been added."}
          IN  \/ /\ birth = Enter \/ r.ok
                 /\ IF birth = Enter THEN UNCHANGED <<phone_book, file>> ELSE Save(rec)
                 /\ IF last.op = "add_contact"
                    THEN Prompt("add_email", rec, shown)
                    ELSE DonePrinting(last.op, last.name, birth, rec, shown \cup {"table"})
              \/ /\ birth # Enter /\ ~r.ok
                 /\ Prompt("add_birthday", record, {"Invalid date format."})
                 /\ UNCHANGED <<phone_book, file>>
    /\ UNCHANGED <<contact_book, today, notes, notes_file, inp, field>>

\* AddAssistant.add_email, one line typed at its prompt.
AddEmail ==
    /\ pc = "add_email"
    /\ \E email \in {Enter, EmailA, BadEmail} :
          LET r == add_email(record, email)
              rec == IF email = Enter THEN record ELSE r.rec
              shown == IF email = Enter THEN {} ELSE {"The email has been added."}
          IN  \/ /\ email = Enter \/ r.ok
                 /\ IF email = Enter THEN UNCHANGED <<phone_book, file>> ELSE Save(rec)
                 /\ IF last.op = "add_contact"
                    THEN Prompt("add_address", rec, shown)
                    ELSE DonePrinting(last.op, last.name, email, rec, shown \cup {"table"})
              \/ /\ email # Enter /\ ~r.ok
                 /\ Prompt("add_email", record, {"Invalid email format."})
                 /\ UNCHANGED <<phone_book, file>>
    /\ UNCHANGED <<contact_book, today, notes, notes_file, inp, field>>

\* AddAssistant.add_address, the line typed at its prompt, and the rest of
\* the command: add_contact saves the record once more and announces it.
AddAddress ==
    /\ pc = "add_address"
    /\ \E address \in {Enter, AddressA} :
          LET rec == IF address = Enter THEN record ELSE add_address(record, address).rec
              shown == IF address = Enter THEN {} ELSE {"The address has been added."}
          IN  /\ IF address = Enter /\ last.op # "add_contact"
                 THEN UNCHANGED <<phone_book, file>>
                 ELSE Save(rec)
              /\ DonePrinting(last.op, last.name, address, rec,
                              shown \cup
                              (IF last.op = "add_contact"
                               THEN {"You have created a new contact:"} ELSE {"table"}))
    /\ UNCHANGED <<contact_book, today, notes, notes_file, inp, field>>

\* The body of EditAssistant.edit_name once the record is found and a new
\* name is typed: the phone_book and the file after it.
edit_name(book, f, rec, new_name) ==
    LET old_name == rec.name
        moved == dict_set(dict_pop(book, old_name), new_name, rec)
        renamed == [rec EXCEPT !.name = Name(new_name).value]
        data == dict_set(moved, new_name, renamed)
    IN  save_record(data, f, renamed)

\* EditAssistant.edit_name
EditName ==
    /\ pc = "edit"
    /\ \E name \in MenuNames, new_name \in MenuNames \cup {Enter} :
          \E fr \in {find_record(phone_book, file, name)} :
          LET rec == Val(fr.record)
          IN  IF IsNone(fr.record)
              THEN /\ phone_book' = fr.book
                   /\ Done("edit_name", name, new_name, {"The contact was not found."}, "None")
                   /\ UNCHANGED file
              ELSE IF new_name = Enter
              THEN /\ phone_book' = fr.book
                   /\ Done("edit_name", name, new_name, {}, "None")
                   /\ UNCHANGED file
              ELSE /\ \E s \in {edit_name(fr.book, file, rec, new_name)} :
                         phone_book' = s.book /\ file' = s.file
                   /\ DonePrinting("edit_name", name, new_name,
                                   [rec EXCEPT !.name = Name(new_name).value],
                                   {"Name changed successfully"})
    /\ UNCHANGED <<contact_book, today, notes, notes_file, inp, field>>

\* EditAssistant.edit_phone
EditPhone ==
    /\ pc = "edit"
    /\ \E name \in MenuNames, old_phone \in {PhoneA, PhoneB},
          new_phone \in {PhoneA, PhoneB, BadPhone} :
          \E fr \in {find_record(phone_book, file, name)} :
          LET rec == Val(fr.record)
              r == edit_phone(rec, old_phone, new_phone)
          IN  IF IsNone(fr.record)
              THEN /\ phone_book' = fr.book
                   /\ Done("edit_phone", name, new_phone, {"The contact was not found."},
                           "None")
                   /\ UNCHANGED file
              ELSE IF table_print_raises(rec, today) \/ r.res = "ValueError"
              THEN /\ phone_book' = fr.book
                   /\ Done("edit_phone", name, new_phone, {}, IncorrectInformation)
                   /\ UNCHANGED file
              ELSE IF r.res = "None"
              THEN /\ phone_book' = fr.book
                   /\ Done("edit_phone", name, new_phone, {"Phone not found!"}, "None")
                   /\ UNCHANGED file
              ELSE /\ SaveIn(fr.book, r.rec)
                   /\ Done("edit_phone", name, new_phone, {"You changed the contact:"},
                           "None")
    /\ UNCHANGED <<contact_book, today, notes, notes_file, inp, field>>

\* EditAssistant.edit_address, edit_birthday, edit_email: each calls the
\* AddAssistant method on the class with the record in the place of self, a
\* TypeError that input_error does not catch.
EditField ==
    /\ pc = "edit"
    /\ \E cmd \in {"edit_address", "edit_birthday", "edit_email"}, name \in MenuNames :
          \E fr \in {find_record(phone_book, file, name)} :
              /\ phone_book' = fr.book
              /\ IF IsNone(fr.record)
                 THEN Done(cmd, name, <<>>, {"The contact was not found."}, "None")
                 ELSE IF cmd = "edit_birthday" /\ table_print_raises(Val(fr.record), today)
                 THEN Done(cmd, name, <<>>, {}, IncorrectInformation)
                 ELSE Crash(cmd, name, <<>>, {}, "TypeError")
    /\ UNCHANGED <<file, contact_book, today, notes, notes_file, inp, field>>

Confirmations == {Enter, <<"1">>, <<"Y", "E", "S">>, <<"n", "o">>}

\* DeleteAssistant.delete_contact
DeleteContact ==
    /\ pc = "delete"
    /\ \E name \in MenuNames, typed \in Confirmations :
          \E fr \in {find_record(phone_book, file, name)} :
          LET rec == Val(fr.record)
              res == str_lower(typed)
              d == delete(fr.book, rec.name)
          IN  IF IsNone(fr.record)
              THEN /\ phone_book' = fr.book
                   /\ Done("delete_contact", name, typed, {"The contact was not found."},
                           "None")
                   /\ UNCHANGED file
              ELSE IF table_print_raises(rec, today)
              THEN /\ phone_book' = fr.book
                   /\ Done("delete_contact", name, typed, {}, IncorrectInformation)
                   /\ UNCHANGED file
              ELSE IF res \in {<<"1">>, <<"y", "e", "s">>}
              THEN /\ phone_book' = d.data
                   /\ file' = write_to_file(d.data)
                   /\ Done("delete_contact", name, typed, {"The contact was removed."},
                           "None")
              ELSE /\ phone_book' = fr.book
                   /\ Done("delete_contact", name, typed, {}, "None")
                   /\ UNCHANGED file
    /\ UNCHANGED <<contact_book, today, notes, notes_file, inp, field>>

\* DeleteAssistant.delete_phone
DeletePhone ==
    /\ pc = "delete"
    /\ \E name \in MenuNames, phone \in {PhoneA, PhoneB} :
          \E fr \in {find_record(phone_book, file, name)} :
          LET rec == Val(fr.record)
              r == remove_phone(rec, phone)
          IN  IF IsNone(fr.record)
              THEN /\ phone_book' = fr.book
                   /\ Done("delete_phone", name, phone, {"The contact was not found."},
                           "None")
                   /\ UNCHANGED file
              ELSE IF table_print_raises(rec, today)
              THEN /\ phone_book' = fr.book
                   /\ Done("delete_phone", name, phone, {}, IncorrectInformation)
                   /\ UNCHANGED file
              ELSE /\ SaveIn(fr.book, r.rec)
                   /\ Done("delete_phone", name, phone,
                           {"The phone number was removed.", "You changed the contact:"},
                           "None")
    /\ UNCHANGED <<contact_book, today, notes, notes_file, inp, field>>

\* DeleteAssistant.delete_address, delete_birthday, delete_email
DeleteField ==
    /\ pc = "delete"
    /\ \E cmd \in {"delete_address", "delete_birthday", "delete_email"},
          name \in MenuNames :
          \E fr \in {find_record(phone_book, file, name)} :
          LET rec == Val(fr.record)
              cleared ==
                  CASE cmd = "delete_address" -> [rec EXCEPT !.address = None]
                    [] cmd = "delete_birthday" -> [rec EXCEPT !.birthday = None]
                    [] cmd = "delete_email" -> [rec EXCEPT !.email = None]
          IN  IF IsNone(fr.record)
              THEN /\ phone_book' = fr.book
                   /\ Done(cmd, name, <<>>, {"The contact was not found."}, "None")
                   /\ UNCHANGED file
              ELSE /\ SaveIn(fr.book, cleared)
                   /\ DonePrinting(cmd, name, <<>>, cleared, {"It was removed."})
    /\ UNCHANGED <<contact_book, today, notes, notes_file, inp, field>>

Next ==
    \/ MainContactMenu
    \/ ContactSelect
    \/ ReturnToMainMenu
    \/ Exit
    \/ ShowAll
    \/ AddContact
    \/ AddMenu
    \/ AddPhone
    \/ AddBirthday
    \/ AddEmail
    \/ AddAddress
    \/ EditName
    \/ EditPhone
    \/ EditField
    \/ DeleteContact
    \/ DeletePhone
    \/ DeleteField

Spec == Init /\ [][Next]_vars

-----------------------------------------------------------------------------
(* Claims on the contact menus *)

\* The stores a command leaves behind: the phone_book of the assistant that
\* ran it and what the file holds.
Stores == {phone_book} \cup (IF file.exists THEN {read_from_file(file)} ELSE {})

\* EDIT NAME ran, found the contact and was given a new, different name.
Renamed ==
    /\ pc = "main"
    /\ last.op = "edit_name"
    /\ "The contact was not found." \notin last.shown
    /\ last.arg \notin {Enter, last.name}

\* C1: after EDIT NAME with a contact found and a non-empty new name, the
\* store in memory and the persisted one have no entry under the old name and
\* have the record under the new name, its name field equal to the new name.
C1_RenameMovesTheRecord ==
    Renamed =>
        \A d \in Stores :
            /\ last.name \notin Keys(d)
            /\ last.arg \in Keys(d)
            /\ dict_get(d, last.arg).name = last.arg

KeyIsName(d) == \A i \in 1..Len(d) : d[i].key = d[i].rec.name

\* C2: whatever contact menu operations have run, every entry of the contact
\* store, in memory and in the file, is stored under its record's name.
C2_KeyEqualsName ==
    /\ \A d \in Stores : KeyIsName(d)
    /\ KeyIsName(contact_book)

C2_Witness ==
    /\ Renamed
    /\ file.exists
    /\ \A d \in Stores : last.arg \in Keys(d) /\ Len(d) = 2

\* C3: no error ends the process: every error raised while a command runs is
\* caught and control returns to the menu loop, so the process ends only
\* through EXIT.
C3_NoErrorIsFatal ==
    \/ pc \in {"main", "contact", "show_all", "add", "add_phone", "add_birthday",
               "add_email", "add_address", "edit", "delete"}
    \/ pc = "exited" /\ last.op = "EXIT"

-----------------------------------------------------------------------------
(* One Record under direct calls of its methods (src/record.py): phones are
   added, edited and removed, the optional fields are set again and again. *)

MaxRecordPhones == 3

EmailB == <<"c", "_", "d", "@", "y", ".", "o", "r", "g">>
AddressB == <<"L", "v", "i", "v", " ", "2">>

InitRecord ==
    /\ pc = "record"
    /\ file = NoFile
    /\ contact_book = <<>>
    /\ phone_book = <<>>
    /\ last = NoCommand
    /\ today = Epoch
    /\ notes = <<>>
    /\ notes_file = NoFile
    /\ record = Record(Ann)
    /\ inp = <<>>
    /\ field = NoField
    /\ ret = NoCall

restOfRecord == <<pc, file, contact_book, phone_book, last, today, notes, notes_file,
                  inp, field>>

\* What a method that returns nothing or raises ValueError leaves in ret.
Outcome(ok) == IF ok THEN "None" ELSE "ValueError"

\* record.add_phone(value)
RecordAddPhone ==
    /\ pc = "record"
    /\ \E value \in {PhoneA, PhoneB, BadPhone} :
          LET r == add_phone(record, value)
          IN  /\ r.ok => Len(record.phones) < MaxRecordPhones
              /\ record' = r.rec
              /\ ret' = [NoCall EXCEPT !.op = "add_phone", !.arg = value,
                                       !.res = Outcome(r.ok)]
    /\ UNCHANGED restOfRecord

\* record.add_email(value)
RecordAddEmail ==
    /\ pc = "record"
    /\ \E value \in {EmailA, EmailB, BadEmail} :
          LET r == add_email(record, value)
          IN  /\ record' = r.rec
              /\ ret' = [NoCall EXCEPT !.op = "add_email", !.arg = value,
                                       !.res = Outcome(r.ok)]
    /\ UNCHANGED restOfRecord

\* record.add_address(value)
RecordAddAddress ==
    /\ pc = "record"
    /\ \E value \in {AddressA, AddressB} :
          LET r == add_address(record, value)
          IN  /\ record' = r.rec
              /\ ret' = [NoCall EXCEPT !.op = "add_address", !.arg = value,
                                       !.res = Outcome(r.ok)]
    /\ UNCHANGED restOfRecord

\* record.add_birthday(value)
RecordAddBirthday ==
    /\ pc = "record"
    /\ \E value \in {BirthdayA, BirthdayLeap, BadDate} :
          LET r == add_birthday(record, value)
          IN  /\ record' = r.rec
              /\ ret' = [NoCall EXCEPT !.op = "add_birthday", !.arg = value,
                                       !.res = Outcome(r.ok)]
    /\ UNCHANGED restOfRecord

\* record.edit_phone(old_phone, new_phone)
RecordEditPhone ==
    /\ pc = "record"
    /\ \E old_phone \in {PhoneA, PhoneB}, new_phone \in {PhoneA, PhoneB, BadPhone} :
          LET r == edit_phone(record, old_phone, new_phone)
          IN  /\ record' = r.rec
              /\ ret' = [NoCall EXCEPT !.op = "edit_phone", !.arg = old_phone,
                                       !.arg2 = new_phone, !.res = r.res,
                                       !.value = r.text]
    /\ UNCHANGED restOfRecord

\* record.remove_phone(phone)
RecordRemovePhone ==
    /\ pc = "record"
    /\ \E phone \in {PhoneA, PhoneB} :
          LET r == remove_phone(record, phone)
          IN  /\ record' = r.rec
              /\ ret' = [NoCall EXCEPT !.op = "remove_phone", !.arg = phone,
                                       !.res = r.res]
    /\ UNCHANGED restOfRecord

NextRecord ==
    \/ RecordAddPhone
    \/ RecordAddEmail
    \/ RecordAddAddress
    \/ RecordAddBirthday
    \/ RecordEditPhone
    \/ RecordRemovePhone

SpecRecord == InitRecord /\ [][NextRecord]_vars

-----------------------------------------------------------------------------
(* Claims about the Record methods, checked under SpecRecord *)

\* The position of the first element of s equal to v.
IsFirst(s, i, v) == s[i] = v /\ \A j \in 1..(i - 1) : s[j] # v

\* C11: add_phone with a valid value appends it at the end of the phone list
\* even when an equal phone is there already; with an invalid value it raises
\* the validator's error and the record is as before.
C11_AddPhoneAppends ==
    [][ret'.op = "add_phone" =>
          IF Phone(ret'.arg).ok
          THEN /\ ret'.res = "None"
               /\ record' = [record EXCEPT !.phones = Append(@, ret'.arg)]
          ELSE /\ ret'.res = "ValueError"
               /\ record' = record]_vars

C11_Witness ==
    /\ ret.op = "add_phone"
    /\ ret.res = "None"
    /\ Len(record.phones) >= 2
    /\ record.phones[Len(record.phones)] = ret.arg
    /\ \E i \in 1..(Len(record.phones) - 1) : record.phones[i] = ret.arg

\* C12: add_email, add_address and add_birthday put the validated value in
\* their field whether or not it had one; when validation fails that field and
\* all the others are as before.
C12_OptionalFieldsAreOverwritten ==
    [][/\ ret'.op = "add_email" =>
             IF Email(ret'.arg).ok
             THEN ret'.res = "None" /\ record' = [record EXCEPT !.email = Some(ret'.arg)]
             ELSE ret'.res = "ValueError" /\ record' = record
       /\ ret'.op = "add_address" =>
             ret'.res = "None" /\ record' = [record EXCEPT !.address = Some(ret'.arg)]
       /\ ret'.op = "add_birthday" =>
             IF Birthday(ret'.arg).ok
             THEN /\ ret'.res = "None"
                  /\ record' = [record EXCEPT !.birthday = Some(Birthday(ret'.arg).value)]
             ELSE ret'.res = "ValueError" /\ record' = record]_vars

C12_Witness ==
    /\ ret.op = "add_email"
    /\ ret.res = "ValueError"
    /\ record.email = Some(EmailB)
    /\ record.birthday # None

\* C13: edit_phone(old, new) returns the not-found signal when no phone
\* equals old and raises when a phone does but new is invalid, the list as
\* before in both cases; otherwise the first phone equal to old, and no
\* other, becomes new and the text returned lists the phones as they now are.
C13_EditPhoneReplacesFirstMatch ==
    [][ret'.op = "edit_phone" =>
          LET old == ret'.arg
              new == ret'.arg2
              phones == record.phones
          IN  IF \A i \in 1..Len(phones) : phones[i] # old
              THEN ret'.res = "None" /\ record' = record
              ELSE IF ~Phone(new).ok
              THEN ret'.res = "ValueError" /\ record' = record
              ELSE /\ ret'.res = "Phones"
                   /\ ret'.value = PhonesLabel \o join_phones(record'.phones)
                   /\ Len(record'.phones) = Len(phones)
                   /\ \A i \in 1..Len(phones) :
                         record'.phones[i] = IF IsFirst(phones, i, old) THEN new
                                             ELSE phones[i]
                   /\ record' = [record EXCEPT !.phones = record'.phones]]_vars

C13_Witness ==
    /\ ret.op = "edit_phone"
    /\ ret.res = "Phones"
    /\ ret.arg # ret.arg2
    /\ \E i, j \in 1..Len(record.phones) :
          i < j /\ record.phones[i] = ret.arg2 /\ record.phones[j] = ret.arg

\* C14: remove_phone(value) removes the first phone equal to value and no
\* other, keeps the order of the rest and reports that it was found; when no
\* phone equals value it reports not found, raises nothing and the list is as
\* before.
C14_RemovePhoneRemovesFirstMatch ==
    [][ret'.op = "remove_phone" =>
          LET phones == record.phones
              hit == {i \in 1..Len(phones) : IsFirst(phones, i, ret'.arg)}
          IN  IF hit = {}
              THEN ret'.res = "not found" /\ record' = record
              ELSE /\ ret'.res = "deleted"
                   /\ Len(record'.phones) = Len(phones) - 1
                   /\ \A i \in 1..(Len(phones) - 1) :
                         record'.phones[i] = IF \E h \in hit : i < h THEN phones[i]
                                             ELSE phones[i + 1]
                   /\ record' = [record EXCEPT !.phones = record'.phones]]_vars

C14_Witness ==
    /\ ret.op = "remove_phone"
    /\ ret.res = "deleted"
    /\ ret.arg \in Range(record.phones)
    /\ Len(record.phones) = 2

-----------------------------------------------------------------------------
(* Claims about add_record and find, checked under SpecBook *)

\* C15: add_record(record) leaves the store mapping the record's name to
\* exactly that record, whatever was under that name before, and every other
\* entry as it was; find(name) returns the record stored under the key name,
\* or None when there is none, and raises nothing.
C15_AddRecordIsUpsertAndFindIsExact ==
    [][/\ ret'.op = "add_record" =>
             LET rec == ret'.value[1]
             IN  /\ Keys(phone_book') = Keys(phone_book) \cup {rec.name}
                 /\ Len(phone_book') = Cardinality(Keys(phone_book'))
                 /\ dict_get(phone_book', rec.name) = rec
                 /\ \A k \in Keys(phone_book) \ {rec.name} :
                       dict_get(phone_book', k) = dict_get(phone_book, k)
       /\ ret'.op = "find" =>
             /\ phone_book' = phone_book
             /\ ret'.res = "None"
             /\ IF \E i \in 1..Len(phone_book) : phone_book[i].key = ret'.arg
                THEN \E i \in 1..Len(phone_book) :
                        /\ phone_book[i].key = ret'.arg
                        /\ ret'.value = Some(phone_book[i].rec)
                ELSE ret'.value = None]_vars

\* The last call replaced the record of the oldest of two entries.
C15_Witness ==
    /\ ret.op = "add_record"
    /\ Len(phone_book) = 2
    /\ phone_book[1].key = ret.arg
    /\ phone_book[1].rec = Record(ret.arg)

-----------------------------------------------------------------------------
(* AddressBook.search (src/record.py) *)

\* t in s, for Python strings.
Contains(s, t) == \E i \in 0..(Len(s) - Len(t)) : SubSeq(s, i + 1, i + Len(t)) = t

\* Record.__str__: what the line tells, or the ValueError of days_to_birthday.
Record_str(rec, date_today) ==
    LET days == days_to_birthday(rec.birthday, date_today)
    IN  [raises |-> days.res = "ValueError",
         name |-> rec.name, phones |-> join_phones(rec.phones),
         birthday |-> rec.birthday, email |-> rec.email, address |-> rec.address,
         days |-> <<days.res, days.value>>]

\* The lines search adds for one item of the store: one ended by a newline
\* when the name contains the term in any letter case, then one without
\* newline for each phone containing the term.
search_item_NameCaseSensitive(item, value, date_today) ==
    LET line == Record_str(item.rec, date_today)
        hits == SelectSeq(item.rec.phones, LAMBDA p : Contains(p, value))
    IN  (IF Contains(item.key, value)
         THEN <<[line |-> line, newline |-> TRUE]>> ELSE <<>>)
        \o [i \in 1..Len(hits) |-> [line |-> line, newline |-> FALSE]]

search_item(item, value, date_today) ==
    LET line == Record_str(item.rec, date_today)
        hits == SelectSeq(item.rec.phones, LAMBDA p : Contains(p, value))
    IN  (IF Contains(str_lower(item.key), str_lower(value))
         THEN <<[line |-> line, newline |-> TRUE]>> ELSE <<>>)
        \o [i \in 1..Len(hits) |-> [line |-> line, newline |-> FALSE]]

MinSearchLen == 3

\* AddressBook.search: res "usage" (the message for a short term), "result"
\* (value holds the lines in order), "None" (nothing matched) or "ValueError"
\* (the line of a matching record could not be written).
search(data, value, date_today) ==
    IF Len(value) < MinSearchLen THEN [res |-> "usage", value |-> <<>>]
    ELSE LET result == Concat([i \in 1..Len(data) |->
                                  search_item(data[i], value, date_today)])
         IN  IF \E i \in 1..Len(result) : result[i].line.raises
             THEN [res |-> "ValueError", value |-> <<>>]
             ELSE IF Len(result) # 0 THEN [res |-> "result", value |-> result]
             ELSE [res |-> "None", value |-> <<>>]

-----------------------------------------------------------------------------
(* A store under search: records are put in with add_record and the store is
   searched on a given day. *)

John == <<"J", "o", "h", "n">>
Johnny == <<"j", "o", "h", "n", "n", "y">>
Al345 == <<"A", "l", "3", "4", "5">>
SearchNames == {John, Johnny, Al345}
PhoneC == <<"1", "2", "3", "1", "2", "3", "4", "5", "6", "7">>

SearchRecords(name) ==
    LET phones(ps) == [Record(name) EXCEPT !.phones = ps]
    IN  { r \in UNION { {phones(ps), add_birthday(phones(ps), BirthdayLeap).rec} :
                          ps \in {<<>>, <<PhoneA>>, <<PhoneA, PhoneC>>, <<PhoneB>>} } :
            \A i \in 1..Len(r.phones) : Phone(r.phones[i]).ok }

SearchTerms ==
    { <<>>, <<"J", "o">>, <<"J", "o", "h">>, <<"J", "O", "H">>, <<"o", "h", "n">>, <<"h", "n", "n">>, <<"3", "4", "5">>, <<"8", "9", "0">>, <<"0", "9", "8">>,
      <<"3", "4">>, <<"x", "y", "z">> }

InitSearch ==
    /\ pc = "search"
    /\ file = NoFile
    /\ contact_book = <<>>
    /\ phone_book = <<>>
    /\ last = NoCommand
    /\ today \in MenuTodays
    /\ notes = <<>>
    /\ notes_file = NoFile
    /\ record = NoRecord
    /\ inp = <<>>
    /\ field = NoField
    /\ ret = NoCall

restOfSearch == <<pc, file, contact_book, last, today, notes, notes_file, record, inp, field>>

\* phone_book.add_record(record)
SearchAddRecord ==
    /\ pc = "search"
    /\ \E name \in SearchNames : \E rec \in SearchRecords(name) :
          /\ name \in Keys(phone_book) \/ Len(phone_book) < MaxContacts
          /\ phone_book' = add_record(phone_book, rec)
          /\ ret' = [NoCall EXCEPT !.op = "add_record", !.arg = name]
    /\ UNCHANGED restOfSearch

\* phone_book.search(value)
Search ==
    /\ pc = "search"
    /\ \E value \in SearchTerms :
          LET r == search(phone_book, value, today)
          IN  ret' = [NoCall EXCEPT !.op = "search", !.arg = value, !.res = r.res,
                                    !.value = r.value]
    /\ UNCHANGED phone_book
    /\ UNCHANGED restOfSearch

NextSearch == SearchAddRecord \/ Search

SpecSearch == InitSearch /\ [][NextSearch]_vars

\* The entries of the store that a term matches by name, in any letter case,
\* or by a phone.
Matching(data, term) ==
    {i \in 1..Len(data) :
        \/ Contains(str_lower(data[i].key), str_lower(term))
        \/ \E j \in 1..Len(data[i].rec.phones) : Contains(data[i].rec.phones[j], term)}

SearchAnswers(data, term, r) ==
    IF Len(term) < 3 THEN r.res = "usage" /\ r.value = <<>>
    ELSE IF Matching(data, term) = {} THEN r.res = "None" /\ r.value = <<>>
    ELSE /\ r.res = "result"
         /\ \A i \in Matching(data, term) :
               \E k \in 1..Len(r.value) : r.value[k].line.name = data[i].rec.name
         /\ \A k \in 1..Len(r.value) :
               \E i \in Matching(data, term) : r.value[k].line.name = data[i].rec.name

\* C16: search(term) returns the usage signal and no list for a term shorter
\* than 3 characters; for a longer term it reports every record whose name
\* contains the term in any letter case and every record with a phone
\* containing it, and returns the no-match result when there is none.
C16_SearchReportsEveryMatch ==
    ret.op = "search" => SearchAnswers(phone_book, ret.arg, ret)

\* The same for stores where no matching record has a birthday that
\* days_to_birthday cannot move to this year or the next.
C16_HoldsWhenNoLineRaises ==
    (/\ ret.op = "search"
     /\ \A i \in Matching(phone_book, ret.arg) :
           ~Record_str(phone_book[i].rec, today).raises)
        => SearchAnswers(phone_book, ret.arg, ret)

-----------------------------------------------------------------------------
(* Notes (src/record.py Note, src/assistant.py NotesAssistant).  A note is
   [content, tags], tags a sequence of strings; the store is a list. *)

\* Note.__init__
Note(content, tags) == [content |-> content, tags |-> IF tags = None THEN <<>> ELSE Val(tags)]

\* NotesAssistant.add_note: tags is None or <<the list>>.
add_note(ns, content, tags) == Append(ns, Note(content, tags))

\* tag in note.tags
HasTag(note, tag) == \E i \in 1..Len(note.tags) : note.tags[i] = tag

\* NotesAssistant.search_notes_by_tag
search_notes_by_tag(ns, tag) == SelectSeq(ns, LAMBDA note : HasTag(note, tag))

\* What edit_note_content prints for the note at position i.
edit_note_message(ns, tag, i) ==
    IF HasTag(ns[i], tag) THEN "Note update successfully." ELSE "Invalid note index."

\* NotesAssistant.edit_note_content that stops at the first note with the tag.
edit_note_content_FirstMatchOnly(ns, tag, new_content) ==
    LET hits == {i \in 1..Len(ns) : HasTag(ns[i], tag)}
    IN  [notes |-> [i \in 1..Len(ns) |->
                      IF i \in hits /\ \A j \in hits : i <= j
                      THEN [ns[i] EXCEPT !.content = new_content] ELSE ns[i]],
         shown |-> {edit_note_message(ns, tag, i) : i \in 1..Len(ns)}]

\* NotesAssistant.edit_note_content: the notes after the loop and what it
\* printed on the way.
edit_note_content(ns, tag, new_content) ==
    [notes |-> [i \in 1..Len(ns) |->
                  IF HasTag(ns[i], tag)
                  THEN [ns[i] EXCEPT !.content = new_content] ELSE ns[i]],
     shown |-> {edit_note_message(ns, tag, i) : i \in 1..Len(ns)}]

\* NotesAssistant.delete_note_by_index
delete_note_by_index(ns, tag) ==
    LET kept == SelectSeq(ns, LAMBDA note : ~HasTag(note, tag))
    IN  [notes |-> kept,
         shown |-> IF Len(kept) = Len(ns) THEN {"No note found with tag"}
                   ELSE {"Note with tag deleted successfully."}]

MaxNotes == 3

TagWork == <<"w", "o", "r", "k">>
TagHome == <<"h", "o", "m", "e">>
TagGym == <<"g", "y", "m">>
NoteTags == {TagWork, TagHome, TagGym}
TagLists == {<<>>, <<TagWork>>, <<TagHome>>, <<TagWork, TagHome>>, <<TagHome, TagWork>>}
NoteContents == {<<"m", "i", "l", "k">>, <<"c", "a", "l", "l", " ", "A", "n", "n">>}

InitNotes ==
    /\ pc = "notes"
    /\ file = NoFile
    /\ contact_book = <<>>
    /\ phone_book = <<>>
    /\ last = NoCommand
    /\ today = Epoch
    /\ notes = <<>>
    /\ notes_file = NoFile
    /\ record = NoRecord
    /\ inp = <<>>
    /\ field = NoField
    /\ ret = NoCall

restOfNotes == <<pc, file, contact_book, phone_book, today, notes_file, record, inp, field>>

\* notes_assistant.add_note(content) and add_note(content, tags)
NotesAddNote ==
    /\ pc = "notes" /\ Len(notes) < MaxNotes
    /\ \E content \in NoteContents, tags \in {None} \cup {Some(t) : t \in TagLists} :
          /\ notes' = add_note(notes, content, tags)
          /\ ret' = [NoCall EXCEPT !.op = "add_note", !.arg = content, !.arg2 = tags,
                                   !.res = "None"]
          /\ last' = [NoCommand EXCEPT !.op = "add_note"]
    /\ UNCHANGED restOfNotes

\* notes_assistant.edit_note_content(tag, new_content)
NotesEditNoteContent ==
    /\ pc = "notes"
    /\ \E tag \in NoteTags, new_content \in NoteContents :
          LET r == edit_note_content(notes, tag, new_content)
          IN  /\ notes' = r.notes
              /\ ret' = [NoCall EXCEPT !.op = "edit_note_content", !.arg = tag,
                                       !.arg2 = new_content, !.res = "None"]
              /\ last' = [NoCommand EXCEPT !.op = "edit_note_content", !.shown = r.shown]
    /\ UNCHANGED restOfNotes

\* notes_assistant.delete_note_by_index(tag)
NotesDeleteNoteByIndex ==
    /\ pc = "notes"
    /\ \E tag \in NoteTags :
          LET r == delete_note_by_index(notes, tag)
          IN  /\ notes' = r.notes
              /\ ret' = [NoCall EXCEPT !.op = "delete_note_by_index", !.arg = tag,
                                       !.res = "None"]
              /\ last' = [NoCommand EXCEPT !.op = "delete_note_by_index",
                                           !.shown = r.shown]
    /\ UNCHANGED restOfNotes

NextNotes == NotesAddNote \/ NotesEditNoteContent \/ NotesDeleteNoteByIndex

SpecNotes == InitNotes /\ [][NextNotes]_vars

\* The positions of the notes whose tags hold the tag.
Tagged(ns, tag) == {i \in 1..Len(ns) : tag \in Range(ns[i].tags)}

\* s is what is left of t when the positions in gone are taken out.
IsRestOf(s, t, gone) ==
    /\ Len(s) = Len(t) - Cardinality(gone)
    /\ \A i \in (1..Len(t)) \ gone :
          s[i - Cardinality({j \in gone : j < i})] = t[i]

\* C17: edit_note_content(tag, new) sets the content of every note whose tags
\* hold tag to new and leaves the other contents, all tags and the order as
\* they were; delete_note_by_index(tag) removes every note whose tags hold
\* tag, keeps the others in order and reports whether any was removed.
C17_EditAndDeleteByTagReachAllMatches ==
    [][/\ ret'.op = "edit_note_content" =>
             /\ Len(notes') = Len(notes)
             /\ \A i \in 1..Len(notes) :
                   /\ notes'[i].tags = notes[i].tags
                   /\ notes'[i].content = IF i \in Tagged(notes, ret'.arg) THEN ret'.arg2
                                          ELSE notes[i].content
       /\ ret'.op = "delete_note_by_index" =>
             /\ IsRestOf(notes', notes, Tagged(notes, ret'.arg))
             /\ "Note with tag deleted successfully." \in last'.shown
                    <=> Tagged(notes, ret'.arg) # {}
             /\ "No note found with tag" \in last'.shown
                    <=> Tagged(notes, ret'.arg) = {}]_vars

\* Two notes share the tag of the last edit and hold its new content, a third
\* note without the tag holds another content.
C17_Witness ==
    /\ ret.op = "edit_note_content"
    /\ Cardinality(Tagged(notes, ret.arg)) = 2
    /\ \A i \in Tagged(notes, ret.arg) : notes[i].content = ret.arg2
    /\ \E i \in 1..Len(notes) : i \notin Tagged(notes, ret.arg) /\ notes[i].content # ret.arg2

-----------------------------------------------------------------------------
(* Birthday queries (src/assistant.py BirthAssistant) *)

\* The date the two window queries compare with the window: the birthday in
\* the current year, moved to the next year when it lies more than one day
\* back.  [ok, value]; not ok is the ValueError of date.replace.
window_birth(birthday, date_today) ==
    LET this_year == date_replace_year(birthday, date_today[1])
    IN  IF ~this_year.ok THEN this_year
        ELSE IF toordinal(this_year.value) < toordinal(date_today) - 1
        THEN date_replace_year(this_year.value, date_today[1] + 1)
        ELSE this_year

\* The items of the store that have a birthday, in order.
WithBirthday(data) == SelectSeq(data, LAMBDA item : ~IsNone(item.rec.birthday))

\* BirthAssistant.birthday_in_given_days(value): res "list" with the lines
\* name; birthday; days_to_birthday in store order, "None" after the message
\* that nothing falls into the period, or "ValueError".
birthday_in_given_days(data, value, date_today) ==
    LET born == WithBirthday(data)
        birth(i) == window_birth(Val(born[i].rec.birthday), date_today)
        listed(i) == /\ toordinal(date_today) <= toordinal(birth(i).value)
                     /\ toordinal(birth(i).value) <= toordinal(date_today) + value
        days(i) == days_to_birthday(born[i].rec.birthday, date_today)
        raises(i) == ~birth(i).ok \/ (listed(i) /\ days(i).res = "ValueError")
        hits == SelectSeq([i \in 1..Len(born) |-> i], listed)
        contact_birth == [k \in 1..Len(hits) |->
                             [name |-> born[hits[k]].key,
                              birthday |-> Val(born[hits[k]].rec.birthday),
                              days |-> <<days(hits[k]).res, days(hits[k]).value>>]]
    IN  IF \E i \in 1..Len(born) : raises(i)
        THEN [res |-> "ValueError", value |-> <<>>, shown |-> {}]
        ELSE IF Len(contact_birth) = 0
        THEN [res |-> "None", value |-> <<>>,
              shown |-> {"No Birthday during this period."}]
        ELSE [res |-> "list", value |-> contact_birth, shown |-> {}]

\* BirthAssistant.birthdays_for_date(day) for the text of the current date:
\* the names whose birthday falls on it, in store order.
birthdays_for_date(data, day, date_today) ==
    LET born == WithBirthday(data)
        birth(i) == date_replace_year(Val(born[i].rec.birthday), date_today[1])
        hits == SelectSeq([i \in 1..Len(born) |-> i], LAMBDA i : birth(i).value = day)
    IN  IF \E i \in 1..Len(born) : ~birth(i).ok
        THEN [res |-> "ValueError", value |-> <<>>, shown |-> {}]
        ELSE IF Len(hits) = 0
        THEN [res |-> "None", value |-> <<>>, shown |-> {"No Birthday this day."}]
        ELSE [res |-> "list", value |-> [k \in 1..Len(hits) |-> born[hits[k]].key],
              shown |-> {}]

\* BirthAssistant.get_birthdays_per_week: the entries name, birthday and ISO
\* day of the week of the birthdays of the next seven days, in store order;
\* the code groups them by the name of the day.
get_birthdays_per_week(data, date_today) ==
    LET born == WithBirthday(data)
        birth(i) == window_birth(Val(born[i].rec.birthday), date_today)
        listed(i) == /\ toordinal(date_today) <= toordinal(birth(i).value)
                     /\ toordinal(birth(i).value) <= toordinal(date_today) + 7
        hits == SelectSeq([i \in 1..Len(born) |-> i], listed)
    IN  IF \E i \in 1..Len(born) : ~birth(i).ok
        THEN [res |-> "ValueError", value |-> <<>>, shown |-> {}]
        ELSE IF Len(hits) = 0
        THEN [res |-> "None", value |-> <<>>, shown |-> {"No Birthday this week."}]
        ELSE [res |-> "dict",
              value |-> [k \in 1..Len(hits) |->
                            [name |-> born[hits[k]].key,
                             birthday |-> Val(born[hits[k]].rec.birthday),
                             day_week |-> isoweekday(birth(hits[k]).value)]],
              shown |-> {}]

-----------------------------------------------------------------------------
(* The birthday query on its own: a BirthAssistant's phone_book is filled
   with add_record and asked with birthday_in_given_days on a given day. *)

MaxDays == 365

BirthTodays == {<<2022, 6, 1>>, <<2023, 12, 31>>, <<2024, 3, 1>>}
BirthTexts == {<<"1", "9", "9", "0", ".", "0", "5", ".", "3", "1">>, <<"1", "9", "9", "0", ".", "0", "6", ".", "0", "1">>, <<"1", "9", "9", "1", ".", "0", "6", ".", "0", "2">>, <<"1", "9", "8", "5", ".", "0", "1", ".", "0", "1">>,
               <<"1", "9", "9", "9", ".", "1", "2", ".", "3", "0">>, BirthdayLeap}
GivenDays == {0, 1, 2, 7, MaxDays - 2, MaxDays - 1}

BirthRecords(name) ==
    {Record(name)} \cup {add_birthday(Record(name), text).rec : text \in BirthTexts}

InitBirth ==
    /\ pc = "birth"
    /\ file = NoFile
    /\ contact_book = <<>>
    /\ phone_book = <<>>
    /\ last = NoCommand
    /\ today \in BirthTodays
    /\ notes = <<>>
    /\ notes_file = NoFile
    /\ record = NoRecord
    /\ inp = <<>>
    /\ field = NoField
    /\ ret = NoCall

restOfBirth == <<pc, file, contact_book, last, today, notes, notes_file, record, inp, field>>

\* phone_book.add_record(rec)
BirthAddRecord ==
    /\ pc = "birth"
    /\ \E name \in MenuNames :
          \E rec \in BirthRecords(name) :
              /\ phone_book' = add_record(phone_book, rec)
              /\ ret' = [NoCall EXCEPT !.op = "add_record", !.arg = name, !.res = "None"]
    /\ UNCHANGED restOfBirth

\* birthday_in_given_days(value), 0 <= value < 365
BirthdayInGivenDays ==
    /\ pc = "birth"
    /\ \E value \in GivenDays :
          LET r == birthday_in_given_days(phone_book, value, today)
          IN  ret' = [NoCall EXCEPT !.op = "birthday_in_given_days", !.arg = value,
                                    !.res = r.res, !.value = r.value]
    /\ UNCHANGED <<phone_book>>
    /\ UNCHANGED restOfBirth

NextBirth == BirthAddRecord \/ BirthdayInGivenDays

SpecBirth == InitBirth /\ [][NextBirth]_vars

\* The names of the records whose days_to_birthday is 'today' or at most n.
DueWithin(data, n, date_today) ==
    {data[i].key : i \in {j \in 1..Len(data) :
        LET d == days_to_birthday(data[j].rec.birthday, date_today)
        IN  d.res = "today" \/ (d.res = "days" /\ d.value <= n)}}

\* The names a result of birthday_in_given_days lists.
Listed(call) == IF call.res = "list" THEN {call.value[k].name : k \in 1..Len(call.value)}
                ELSE {}

\* C20: for 0 <= N < 365 and every current date, birthday_in_given_days(N)
\* lists exactly the records whose days_to_birthday is 'today' or a number
\* that is at most N.
C20_ListsExactlyTheDueBirthdays ==
    ret.op = "birthday_in_given_days" =>
        /\ ret.res \in {"list", "None"}
        /\ Listed(ret) = DueWithin(phone_book, ret.arg, today)

\* The same for the stores in which no birthday fell on the day before the
\* current date and none is a February 29.
C20_HoldsExceptYesterdayAndFebruary29 ==
    ( /\ ret.op = "birthday_in_given_days"
      /\ \A i \in 1..Len(phone_book) :
            LET b == phone_book[i].rec.birthday
            IN  ~IsNone(b) =>
                   /\ ~(Val(b)[2] = 2 /\ Val(b)[3] = 29)
                   /\ date_replace_year(Val(b), today[1]).value # PrevDay(today) )
    => /\ ret.res \in {"list", "None"}
       /\ Listed(ret) = DueWithin(phone_book, ret.arg, today)

\* A birthday of the day before the current date is due in 364 days and the
\* query for 364 days does not list it.
C20_YesterdayIsLeftOut ==
    /\ ret.op = "birthday_in_given_days" /\ ret.arg = MaxDays - 1 /\ ret.res = "None"
    /\ DueWithin(phone_book, ret.arg, today) # {}

-----------------------------------------------------------------------------
(* The outcome a contact menu command shows, against the outcome of the
   Record operation it called (under Spec) *)

\* The record find_record hands to the command that is about to answer for
\* the name typed, or None.
Found(name) == find_record(phone_book, file, name).record

\* EDIT PHONE shows its confirmation only after edit_phone replaced a number
\* of the record by a valid one.
C19_EditPhoneSurfacesTheOutcome ==
    [][(pc = "edit" /\ last'.op = "edit_phone"
            /\ "You changed the contact:" \in last'.shown)
        => /\ ~IsNone(Found(last'.name))
           /\ \E old_phone \in Range(Val(Found(last'.name)).phones) :
                 edit_phone(Val(Found(last'.name)), old_phone, last'.arg).res = "Phones"]_vars

\* C19: a contact menu command never shows a success confirmation when the
\* record operation it called reported not-found or raised a validation
\* error: DELETE PHONE announces a removal only when remove_phone deleted the
\* number, EDIT PHONE a change only when edit_phone made one.
C19_MenuSurfacesTheOutcome ==
    [][/\ (pc = "delete" /\ last'.op = "delete_phone"
               /\ "The phone number was removed." \in last'.shown)
           => /\ ~IsNone(Found(last'.name))
              /\ remove_phone(Val(Found(last'.name)), last'.arg).res = "deleted"
       /\ (pc = "edit" /\ last'.op = "edit_phone"
               /\ "You changed the contact:" \in last'.shown)
           => /\ ~IsNone(Found(last'.name))
              /\ \E old_phone \in Range(Val(Found(last'.name)).phones) :
                    edit_phone(Val(Found(last'.name)), old_phone, last'.arg).res = "Phones"]_vars

-----------------------------------------------------------------------------
(* The notes file, the tags typed at a prompt and the order of sorted() *)

\* pickle.dump(self.notes, file): per note its content and then its tags.
note_dump(ns) ==
    Concat([i \in 1..Len(ns) |->
               <<<<"content", ns[i].content>>>>
               \o [k \in 1..Len(ns[i].tags) |-> <<"tag", ns[i].tags[k]>>]])

\* pickle.load(file): the notes rebuilt from the stream.
RECURSIVE note_load(_)
note_load(blob) ==
    IF blob = <<>> THEN <<>>
    ELSE LET next == CHOOSE k \in 2..(Len(blob) + 1) :
                        /\ k = Len(blob) + 1 \/ blob[k][1] = "content"
                        /\ \A j \in 2..(k - 1) : blob[j][1] = "tag"
         IN  <<[content |-> blob[1][2],
                tags |-> [j \in 1..(next - 2) |-> blob[j + 1][2]]]>>
             \o note_load(SubSeq(blob, next, Len(blob)))

\* NotesAssistant.note_write_to_file: the file after the call.
note_write_to_file(ns) == [exists |-> TRUE, blob |-> note_dump(ns)]

\* NotesAssistant.note_read_from_file: self.notes after the call.
note_read_from_file(f) == note_load(f.blob)

\* s.split(","): the pieces between the commas, one empty piece for the
\* empty string.
RECURSIVE str_split(_)
str_split(s) ==
    IF \A i \in 1..Len(s) : s[i] # ","
    THEN <<s>>
    ELSE LET comma == CHOOSE i \in 1..Len(s) : s[i] = "," /\ \A j \in 1..(i - 1) : s[j] # ","
         IN  <<SubSeq(s, 1, comma - 1)>> \o str_split(SubSeq(s, comma + 1, Len(s)))

\* The characters of the texts in use, in the order of their code points.
CodePoints == <<" ", ",", ".">> \o AsciiDigits \o <<"@">> \o AsciiUpper \o <<"_">> \o AsciiLower

ord(c) == CHOOSE i \in 1..Len(CodePoints) : CodePoints[i] = c

\* s < t for two Python strings.
RECURSIVE str_lt(_, _)
str_lt(s, t) ==
    IF t = <<>> THEN FALSE
    ELSE IF s = <<>> THEN TRUE
    ELSE IF Head(s) # Head(t) THEN ord(Head(s)) < ord(Head(t))
    ELSE str_lt(Tail(s), Tail(t))

\* s < t for two lists of strings.
RECURSIVE list_lt(_, _)
list_lt(s, t) ==
    IF t = <<>> THEN FALSE
    ELSE IF s = <<>> THEN TRUE
    ELSE IF Head(s) # Head(t) THEN str_lt(Head(s), Head(t))
    ELSE list_lt(Tail(s), Tail(t))

\* sorted() that returns the notes in the order found.
sorted_by_tags_KeepsStoreOrder(found) == found

\* sorted(found, key=lambda x: x.tags): ascending by tags, notes with equal
\* tags in their order in found.
sorted_by_tags(found) ==
    LET before(i, j) == \/ list_lt(found[i].tags, found[j].tags)
                        \/ (found[i].tags = found[j].tags /\ i < j)
        rank(i) == Cardinality({j \in 1..Len(found) : before(j, i)})
    IN  [k \in 1..Len(found) |-> found[CHOOSE i \in 1..Len(found) : rank(i) = k - 1]]

\* NotesAssistant.search_and_sort_notes
search_and_sort_notes(ns, keyword) ==
    sorted_by_tags(SelectSeq(ns, LAMBDA note : HasTag(note, keyword)))

\* result.split("\n") in ContactAssistant.search: the lines of each piece,
\* in order.  A line without newline runs into the line after it; a result
\* that ends with a newline has one more, empty, piece (see LastPieceIsEmpty).
search_pieces(lines) ==
    LET starts == {1} \cup {i + 1 : i \in {j \in 1..(Len(lines) - 1) : lines[j].newline}}
        stop(s) == CHOOSE e \in s..Len(lines) :
                       /\ lines[e].newline \/ e = Len(lines)
                       /\ \A j \in s..(e - 1) : ~lines[j].newline
        nth(k) == CHOOSE s \in starts : Cardinality({x \in starts : x < s}) = k - 1
    IN  IF lines = <<>> THEN <<>>
        ELSE [k \in 1..Cardinality(starts) |-> SubSeq(lines, nth(k), stop(nth(k)))]

LastPieceIsEmpty(lines) == lines # <<>> /\ lines[Len(lines)].newline

-----------------------------------------------------------------------------
(* A session from the first run on: main.py starts without Phone_Book.bin
   and without Save_Notes.bin; the contact menu adds, looks up, lists and
   searches, the birthday menu asks its three queries, the notes menu adds,
   edits, deletes, searches and lists. *)

MaxStoreContacts == 1
MaxStoreNotes == 1

StoreSearchTerms == {Enter, <<"A", "n">>, <<"A", "N", "N">>, <<"1", "2", "3">>, <<"x", "y", "z">>}
StoreDays == {Enter, <<"0">>, <<"3", "6", "4">>, <<"3", "6", "5">>, <<"a">>, <<Sup2>>}
StoreTagTexts == {Enter, <<"w", "o", "r", "k">>, <<"w", "o", "r", "k", ",", "h", "o", "m", "e">>}
StoreTags == {Enter, TagWork, TagHome}
StoreContents == {<<"m", "i", "l", "k">>, <<"c", "a", "l", "l", " ", "A", "n", "n">>}

InitStore ==
    /\ pc = "main"
    /\ file = NoFile
    /\ contact_book = <<>>
    /\ phone_book = <<>>
    /\ last = NoCommand
    /\ today \in MenuTodays
    /\ notes = <<>>
    /\ notes_file = NoFile
    /\ record = NoRecord
    /\ inp = <<>>
    /\ field = NoField
    /\ ret = NoCall

\* ContactAssistant.handler: ADD, EDIT, SEARCH or SHOW ALL is selected.
StoreContactSelect ==
    /\ pc = "contact"
    /\ pc' \in {"add", "edit", "search", "show_all"}
    /\ UNCHANGED <<file, contact_book, phone_book, last, today, notes, notes_file,
                   record, inp, field, ret>>

\* AddAssistant.add_contact while the store holds fewer than
\* MaxStoreContacts contacts.
StoreAddContact ==
    /\ Len(IF file.exists THEN read_from_file(file) ELSE phone_book) < MaxStoreContacts
    /\ AddContact

\* ContactAssistant.search, one line typed at its prompt.
SearchMenu ==
    /\ pc = "search"
    /\ \E typed \in StoreSearchTerms :
          LET res == str_lower(typed)
              result == search(contact_book, res, today)
              pieces == search_pieces(result.value)
              asked(shown) ==
                  /\ last' = [NoCommand EXCEPT !.op = "search", !.arg = typed,
                                               !.shown = shown]
                  /\ ret' = [NoCall EXCEPT !.op = "search", !.arg = res, !.res = "None",
                                           !.value = pieces]
                  /\ UNCHANGED <<pc, record>>
          IN  IF res = <<>> THEN Done("search", <<>>, typed, {}, "None")
              ELSE IF result.res = "ValueError"
              THEN Done("search", <<>>, typed, {}, IncorrectInformation)
              ELSE IF result.res = "usage"
              THEN Done("search", <<>>, typed, {}, "Enter user name")
              ELSE IF result.res = "None" THEN asked({"No matches found."})
              ELSE IF LastPieceIsEmpty(result.value)
              THEN /\ pc' = "main"
                   /\ last' = [NoCommand EXCEPT !.op = "search", !.arg = typed,
                                                !.shown = {"table"}]
                   /\ ret' = [NoCall EXCEPT !.op = "search", !.arg = res,
                                            !.res = "Enter user name", !.value = pieces]
                   /\ record' = NoRecord
              ELSE asked({"table", "No matches found."})
    /\ UNCHANGED <<file, contact_book, phone_book, today, notes, notes_file, inp, field>>

\* main.py: GOODIES MENU, then BIRTH MENU: a new BirthAssistant reads the
\* file into its phone_book.
MainBirthMenu ==
    /\ pc = "main"
    /\ pc' = "birth_menu"
    /\ phone_book' = IF file.exists THEN read_from_file(file) ELSE <<>>
    /\ last' = NoCommand
    /\ ret' = NoCall
    /\ UNCHANGED <<file, contact_book, today, notes, notes_file, record, inp, field>>

\* The end of a birthday menu command: no input_error stands between its
\* query and the loop of main.py.
BirthDone(cmd, arg, r) ==
    IF r.res = "ValueError" THEN Crash(cmd, <<>>, arg, {}, "ValueError")
    ELSE IF r.res = "None" THEN Done(cmd, <<>>, arg, r.shown, "None")
    ELSE Done(cmd, <<>>, arg, {"table"}, "None")

\* BirthAssistant.birthdays_for_date_menu
BirthdaysForDateMenu ==
    /\ pc = "birth_menu"
    /\ IF phone_book = <<>>
       THEN Done("birthdays_for_date_menu", <<>>, <<>>, {"No contacts."}, "None")
       ELSE BirthDone("birthdays_for_date_menu", <<>>,
                      birthdays_for_date(phone_book, today, today))
    /\ UNCHANGED <<file, contact_book, phone_book, today, notes, notes_file, inp, field>>

\* BirthAssistant.get_birthdays_per_week_menu
GetBirthdaysPerWeekMenu ==
    /\ pc = "birth_menu"
    /\ IF phone_book = <<>>
       THEN Done("get_birthdays_per_week_menu", <<>>, <<>>, {"No contacts."}, "None")
       ELSE BirthDone("get_birthdays_per_week_menu", <<>>,
                      get_birthdays_per_week(phone_book, today))
    /\ UNCHANGED <<file, contact_book, phone_book, today, notes, notes_file, inp, field>>

\* BirthAssistant.birthday_in_given_days_menu
BirthdayInGivenDaysMenu ==
    /\ pc = "birth_menu"
    /\ \E item_number \in StoreDays :
          LET cmd == "birthday_in_given_days_menu"
          IN  IF phone_book = <<>>
              THEN Done(cmd, <<>>, <<>>, {"No contacts."}, "None")
              ELSE IF item_number = Enter THEN Done(cmd, <<>>, item_number, {}, "None")
              ELSE IF str_isdigit(item_number) /\ ~int_ok(item_number)
              THEN Crash(cmd, <<>>, item_number, {}, "ValueError")
              ELSE IF str_isdigit(item_number) /\ DigitsToInt(item_number) < MaxDays
              THEN BirthDone(cmd, item_number,
                             birthday_in_given_days(phone_book, DigitsToInt(item_number),
                                                    today))
              ELSE IF str_isalpha(item_number)
              THEN Done(cmd, <<>>, item_number, {"You entered letters"}, "None")
              ELSE Done(cmd, <<>>, item_number,
                        {"You entered a number greater than one year"}, "None")
    /\ UNCHANGED <<file, contact_book, phone_book, today, notes, notes_file, inp, field>>

\* main.py: NOTE is selected, NotesAssistant.handler reads the notes file.
MainNoteMenu ==
    /\ pc = "main"
    /\ pc' = "note_menu"
    /\ notes' = IF notes_file.exists THEN note_read_from_file(notes_file) ELSE notes
    /\ last' = NoCommand
    /\ ret' = NoCall
    /\ UNCHANGED <<file, contact_book, phone_book, today, notes_file, record, inp, field>>

\* NotesAssistant.note_add_menu
NoteAddMenu ==
    /\ pc = "note_menu" /\ Len(notes) < MaxStoreNotes
    /\ \E content \in StoreContents, typed \in StoreTagTexts :
          /\ notes' = add_note(notes, content, Some(str_split(typed)))
          /\ notes_file' = note_write_to_file(notes')
          /\ Done("note_add_menu", content, typed, {}, "None")
    /\ UNCHANGED <<file, contact_book, phone_book, today, inp, field>>

\* NotesAssistant.note_charge_menu
NoteChargeMenu ==
    /\ pc = "note_menu"
    /\ \E index \in StoreTags, new_content \in StoreContents :
          LET r == edit_note_content(notes, index, new_content)
          IN  /\ notes' = r.notes
              /\ notes_file' = note_write_to_file(notes')
              /\ Done("note_charge_menu", index, new_content, r.shown, "None")
    /\ UNCHANGED <<file, contact_book, phone_book, today, inp, field>>

\* NotesAssistant.note_delete_menu
NoteDeleteMenu ==
    /\ pc = "note_menu"
    /\ \E index \in StoreTags :
          LET r == delete_note_by_index(notes, index)
          IN  /\ notes' = r.notes
              /\ notes_file' = note_write_to_file(notes')
              /\ Done("note_delete_menu", index, <<>>, r.shown, "None")
    /\ UNCHANGED <<file, contact_book, phone_book, today, inp, field>>

\* NotesAssistant.note_search_menu
NoteSearchMenu ==
    /\ pc = "note_menu"
    /\ \E tag_to_search \in StoreTags :
          LET sorted_notes == search_and_sort_notes(notes, tag_to_search)
          IN  /\ pc' = "main"
              /\ last' = [NoCommand EXCEPT !.op = "note_search_menu",
                             !.name = tag_to_search,
                             !.shown = IF sorted_notes # <<>>
                                       THEN {"Found and Sorted Notes with Tag", "table"}
                                       ELSE {"Nothing to sort!"}]
              /\ ret' = [NoCall EXCEPT !.op = "note_search_menu", !.arg = tag_to_search,
                                       !.res = "None", !.value = sorted_notes]
              /\ record' = NoRecord
    /\ UNCHANGED <<file, contact_book, phone_book, today, notes, notes_file, inp, field>>

\* NotesAssistant.note_show_menu
NoteShowMenu ==
    /\ pc = "note_menu"
    /\ Done("note_show_menu", <<>>, <<>>,
            IF notes = <<>> THEN {"List empty."} ELSE {"table"}, "None")
    /\ UNCHANGED <<file, contact_book, phone_book, today, notes, notes_file, inp, field>>

NextStore ==
    \/ MainContactMenu
    \/ StoreContactSelect
    \/ StoreAddContact
    \/ AddPhone
    \/ AddBirthday
    \/ AddEmail
    \/ AddAddress
    \/ EditPhone
    \/ ShowAll
    \/ SearchMenu
    \/ MainBirthMenu
    \/ BirthdaysForDateMenu
    \/ GetBirthdaysPerWeekMenu
    \/ BirthdayInGivenDaysMenu
    \/ MainNoteMenu
    \/ NoteAddMenu
    \/ NoteChargeMenu
    \/ NoteDeleteMenu
    \/ NoteSearchMenu
    \/ NoteShowMenu

SpecStore == InitStore /\ [][NextStore]_vars

\* What the add commands print after a field or the contact was stored.
AddedMessages ==
    {"The phone number has been added.", "The date of birth has been added.",
     "The email has been added.", "The address has been added.",
     "You have created a new contact:"}

\* C18: a missing file is an empty store.  While Phone_Book.bin does not
\* exist the stores in memory are empty, no command ends the process with an
\* exception, SHOW ALL and the birthday queries answer "No contacts.", SEARCH
\* finds no match, a lookup answers that the contact was not found, and the
\* first successful add creates the file with the contact in it.  While
\* Save_Notes.bin does not exist the notes are empty, the notes search and
\* listing answer as for no notes, and the first add creates the file with
\* the note in it.
C18_MissingFileIsAnEmptyStore ==
    [][/\ ~file.exists =>
            /\ contact_book = <<>> /\ phone_book = <<>>
            /\ pc' # "crashed"
            /\ pc = "show_all" =>
                   last'.shown \in {{"No contacts."}, {"You entered letters"}}
            /\ pc = "search" =>
                   /\ last'.shown \subseteq {"No matches found."}
                   /\ ret'.value = <<>>
            /\ pc = "edit" => last'.shown = {"The contact was not found."}
            /\ pc = "birth_menu" => last'.shown = {"No contacts."}
            /\ last'.shown \cap AddedMessages # {} =>
                   /\ file'.exists
                   /\ Keys(read_from_file(file')) = {last'.name}
       /\ ~notes_file.exists =>
            /\ notes = <<>>
            /\ pc = "note_menu" => pc' # "crashed"
            /\ last'.op = "note_search_menu" => last'.shown = {"Nothing to sort!"}
            /\ last'.op = "note_show_menu" => last'.shown = {"List empty."}
            /\ last'.op = "note_add_menu" =>
                   /\ notes_file'.exists
                   /\ Len(notes') = 1
                   /\ note_read_from_file(notes_file') = notes'
                   /\ notes'[1].content = last'.name]_vars

\* The first note was added and made Save_Notes.bin, Phone_Book.bin is still
\* missing and a birthday query has just answered "No contacts.".
C18_Witness ==
    /\ ~file.exists
    /\ notes_file.exists /\ Len(note_read_from_file(notes_file)) = 1
    /\ last.op = "birthdays_for_date_menu" /\ last.shown = {"No contacts."}

\* The first contact was added while Phone_Book.bin was missing and the file
\* now holds it.
C18_FirstAddMadeTheFile ==
    /\ file.exists /\ Keys(read_from_file(file)) = {last.name}
    /\ last.op = "add_contact" /\ "You have created a new contact:" \in last.shown

-----------------------------------------------------------------------------
(* The query for the week on its own: a BirthAssistant's phone_book is
   filled with add_record and asked with get_birthdays_per_week. *)

WeekdayNames ==
    <<"Monday", "Tuesday", "Wednesday", "Thursday", "Friday", "Saturday", "Sunday">>

\* The dictionary get_birthdays_per_week returns: for each day of the week
\* that has an entry, the texts name: birthday entered under it, as pairs
\* and in store order.
users_by_weekday(entries) ==
    [day \in {WeekdayNames[entries[k].day_week] : k \in 1..Len(entries)} |->
        LET under == SelectSeq(entries, LAMBDA e : WeekdayNames[e.day_week] = day)
        IN  [k \in 1..Len(under) |-> <<under[k].name, under[k].birthday>>]]

WeekTexts == {<<"1", "9", "9", "0", ".", "0", "5", ".", "3", "1">>, <<"1", "9", "9", "2", ".", "0", "6", ".", "0", "2">>, <<"1", "9", "9", "0", ".", "0", "6", ".", "0", "1">>, <<"1", "9", "9", "1", ".", "0", "6", ".", "0", "8">>, <<"1", "9", "8", "5", ".", "0", "6", ".", "0", "9">>,
              <<"1", "9", "9", "9", ".", "0", "1", ".", "0", "7">>, <<"1", "9", "9", "9", ".", "0", "1", ".", "0", "8">>, BirthdayLeap}

WeekRecords(name) ==
    {Record(name)} \cup {add_birthday(Record(name), text).rec : text \in WeekTexts}

\* phone_book.add_record(rec)
WeekAddRecord ==
    /\ pc = "birth"
    /\ \E name \in MenuNames :
          \E rec \in WeekRecords(name) :
              /\ phone_book' = add_record(phone_book, rec)
              /\ ret' = [NoCall EXCEPT !.op = "add_record", !.arg = name, !.res = "None"]
    /\ UNCHANGED restOfBirth

\* get_birthdays_per_week()
GetBirthdaysPerWeek ==
    /\ pc = "birth"
    /\ LET r == get_birthdays_per_week(phone_book, today)
       IN  ret' = [NoCall EXCEPT !.op = "get_birthdays_per_week", !.res = r.res,
                                 !.value = IF r.res = "dict"
                                           THEN <<users_by_weekday(r.value)>> ELSE <<>>]
    /\ UNCHANGED <<phone_book>>
    /\ UNCHANGED restOfBirth

NextWeek == WeekAddRecord \/ GetBirthdaysPerWeek

SpecWeek == InitBirth /\ [][NextWeek]_vars

\* The names a result of get_birthdays_per_week reports under a day.
Under(call, day) ==
    IF call.res = "dict" /\ day \in DOMAIN call.value[1] THEN call.value[1][day] ELSE <<>>

\* The day of the week of the date n days after date_today.
WeekdayAfter(date_today, n) == WeekdayNames[((toordinal(date_today) + n + 6) % 7) + 1]

\* The records of the store that the week's report owes under a day: those
\* whose days_to_birthday is 'today' or at most 7 and whose anniversary falls
\* on that day of the week.
DueOn(data, day, date_today) ==
    {data[i].key : i \in {j \in 1..Len(data) :
        LET d == days_to_birthday(data[j].rec.birthday, date_today)
        IN  /\ d.res = "today" \/ (d.res = "days" /\ d.value <= 7)
            /\ WeekdayAfter(date_today, d.value) = day}}

WeekReportIsExact ==
    /\ ret.res \in {"dict", "None"}
    /\ ret.res = "None" <=> DueWithin(phone_book, 7, today) = {}
    /\ \A day \in Range(WeekdayNames) :
          /\ {Under(ret, day)[k][1] : k \in 1..Len(Under(ret, day))}
                 = DueOn(phone_book, day, today)
          /\ Len(Under(ret, day)) = Cardinality(DueOn(phone_book, day, today))

\* C21: for every current date get_birthdays_per_week reports exactly the
\* records whose next anniversary lies in [today, today + 7 days], each once
\* and under the day of the week of that anniversary, and reports none when
\* no record qualifies.
C21_WeekReportsExactlyTheDueBirthdays ==
    ret.op = "get_birthdays_per_week" => WeekReportIsExact

\* The same for the stores that hold no birthday of February 29.
C21_HoldsExceptFebruary29 ==
    ( /\ ret.op = "get_birthdays_per_week"
      /\ \A i \in 1..Len(phone_book) :
            LET b == phone_book[i].rec.birthday
            IN  ~IsNone(b) => ~(Val(b)[2] = 2 /\ Val(b)[3] = 29) )
    => WeekReportIsExact

\* The week's report names two records under two days.
C21_TwoDaysReported ==
    /\ ret.op = "get_birthdays_per_week" /\ ret.res = "dict"
    /\ Cardinality(DOMAIN ret.value[1]) = 2

-----------------------------------------------------------------------------
(* EDIT ADDRESS, EDIT BIRTHDAY and EDIT EMAIL (under Spec) *)

\* Where the add method of the field asks for the new value.
FieldPrompt(cmd) ==
    CASE cmd = "edit_address" -> "add_address"
      [] cmd = "edit_birthday" -> "add_birthday"
      [] cmd = "edit_email" -> "add_email"

\* C22: EDIT EMAIL, EDIT BIRTHDAY and EDIT ADDRESS on an existing contact
\* prompt for a new value: the command started for a stored name goes on to
\* the prompt of its field with the record found, from where a valid value
\* replaces the field, is saved and the record is shown.
C22_EditFieldPromptsForTheNewValue ==
    [][(/\ pc = "edit"
        /\ last'.op \in {"edit_address", "edit_birthday", "edit_email"}
        /\ ~IsNone(Found(last'.name)))
       => /\ pc' = FieldPrompt(last'.op)
          /\ record' = Val(Found(last'.name))]_vars

-----------------------------------------------------------------------------
(* EXIT in a session that has worked on both stores *)

\* ExitAssistant.handler from any menu: ContactAssistant.exit and
\* NotesAssistant.exit are named, not called; "Good bye!" and exit().  The
\* process and the stores in its memory are gone, the files stay.
StoreExit ==
    /\ pc \in {"main", "contact", "add", "edit", "birth_menu", "note_menu"}
    /\ pc' = "exited"
    /\ last' = [NoCommand EXCEPT !.op = "EXIT", !.shown = {"Good bye!"}]
    /\ ret' = [NoCall EXCEPT !.op = "EXIT", !.res = "SystemExit"]
    /\ contact_book' = <<>>
    /\ phone_book' = <<>>
    /\ notes' = <<>>
    /\ UNCHANGED <<file, notes_file, today, record, inp, field>>

NextExit == NextStore \/ StoreExit

SpecExit == InitStore /\ [][NextExit]_vars

\* C23: when the user selects EXIT the exit operations write the phone book
\* and the notes to their files before the process terminates: after EXIT
\* Phone_Book.bin holds the phone book of the contact menu and Save_Notes.bin
\* the notes.
C23_ExitWritesTheStores ==
    [][ret'.op = "EXIT" =>
           /\ file' = write_to_file(contact_book)
           /\ notes_file' = note_write_to_file(notes)]_vars

\* EXIT writes nothing, and nothing is lost by that: each file that exists
\* already holds what the last command that changed its store left in memory.
C23_NothingIsLostAtExit ==
    [][ret'.op = "EXIT" =>
           /\ file' = file /\ notes_file' = notes_file
           /\ IF file.exists THEN phone_book \in {<<>>, read_from_file(file)}
              ELSE phone_book = <<>> /\ contact_book = <<>>
           /\ IF notes_file.exists THEN notes = note_read_from_file(notes_file)
              ELSE notes = <<>>]_vars

-----------------------------------------------------------------------------
(* How often and in which order search reports a record (under SpecSearch) *)

\* 1 for a name that contains the term in any letter case, plus the number of
\* phones that contain the term.
Times(item, term) ==
    (IF Contains(str_lower(item.key), str_lower(term)) THEN 1 ELSE 0)
    + Cardinality({j \in 1..Len(item.rec.phones) : Contains(item.rec.phones[j], term)})

\* The names of a store, each as often as Times tells, in store order.
Expected(data, term) ==
    Concat([i \in 1..Len(data) |-> [k \in 1..Times(data[i], term) |-> data[i].key]])

-----------------------------------------------------------------------------
(* The two tag queries on their own: notes are added with add_note and asked
   for with search_notes_by_tag and search_and_sort_notes. *)

TagWorkUpper == <<"W", "o", "r", "k">>
QueryTagLists == {<<>>, <<TagWork>>, <<TagWorkUpper>>, <<TagWork, TagHome>>,
                  <<TagHome, TagWork>>}
QueryTerms == {TagWork, TagWorkUpper, TagHome, <<"w", "o", "r">>}

\* notes_assistant.add_note(content, tags)
QueryAddNote ==
    /\ pc = "notes" /\ Len(notes) < MaxNotes
    /\ \E content \in NoteContents, tags \in QueryTagLists :
          /\ notes' = add_note(notes, content, Some(tags))
          /\ ret' = [NoCall EXCEPT !.op = "add_note", !.arg = content, !.arg2 = tags,
                                   !.res = "None"]
          /\ last' = [NoCommand EXCEPT !.op = "add_note"]
    /\ UNCHANGED restOfNotes

\* notes_assistant.search_notes_by_tag(tag)
QuerySearchNotesByTag ==
    /\ pc = "notes"
    /\ \E tag \in QueryTerms :
          /\ ret' = [NoCall EXCEPT !.op = "search_notes_by_tag", !.arg = tag,
                                   !.res = "list",
                                   !.value = search_notes_by_tag(notes, tag)]
          /\ last' = [NoCommand EXCEPT !.op = "search_notes_by_tag"]
    /\ UNCHANGED notes
    /\ UNCHANGED restOfNotes

\* notes_assistant.search_and_sort_notes(keyword)
QuerySearchAndSortNotes ==
    /\ pc = "notes"
    /\ \E keyword \in QueryTerms :
          /\ ret' = [NoCall EXCEPT !.op = "search_and_sort_notes", !.arg = keyword,
                                   !.res = "list",
                                   !.value = search_and_sort_notes(notes, keyword)]
          /\ last' = [NoCommand EXCEPT !.op = "search_and_sort_notes"]
    /\ UNCHANGED notes
    /\ UNCHANGED restOfNotes

NextQuery == QueryAddNote \/ QuerySearchNotesByTag \/ QuerySearchAndSortNotes

SpecQuery == InitNotes /\ [][NextQuery]_vars

\* s comes before t in the lexicographic order that Less gives the elements:
\* s is a proper prefix of t, or at the first place where they differ the
\* element of s is the smaller one.
LexLess(s, t, Less(_, _)) ==
    \E i \in 1..Len(t) :
        /\ i <= Len(s) + 1
        /\ \A j \in 1..(i - 1) : s[j] = t[j]
        /\ i = Len(s) + 1 \/ Less(s[i], t[i])

CharLess(c, d) == ord(c) < ord(d)
StrLess(s, t) == LexLess(s, t, CharLess)
TagsLess(s, t) == LexLess(s, t, StrLess)

\* The notes with the term among their tags by equality, in store order.
WithTag(ns, term) == SelectSeq(ns, LAMBDA note : term \in Range(note.tags))

\* out holds the notes of found, each once, non-decreasing by tags and with
\* notes of equal tags in the order of found.
IsStableSortByTags(out, found) ==
    /\ Len(out) = Len(found)
    /\ \E p \in [1..Len(found) -> 1..Len(found)] :
          /\ \A k, l \in 1..Len(found) : k # l => p[k] # p[l]
          /\ \A k \in 1..Len(found) : out[k] = found[p[k]]
          /\ \A k, l \in 1..Len(found) :
                k < l => /\ ~TagsLess(out[l].tags, out[k].tags)
                         /\ out[k].tags = out[l].tags => p[k] < p[l]

-----------------------------------------------------------------------------
\* The store after the step is the store before it with one note more at the
\* end.
OneNoteAppended == 
    /\ Len(notes') = Len(notes) + 1
    /\ SubSeq(notes', 1, Len(notes)) = notes

\* C26: adding a note appends it at the end of the note store and leaves the
\* notes before it and their order as they were, and a note added without tags
\* has an empty tag sequence; here for the ADD NOTE menu, where Enter at the
\* tags prompt is the way to add a note without tags.
C26_AddedWithoutTagsHasNoTags ==
    [][last'.op = "note_add_menu" =>
          /\ OneNoteAppended
          /\ last'.arg = Enter => notes'[Len(notes')].tags = <<>>]_vars

\* The ADD NOTE menu appends the note, with the pieces of the typed text as
\* its tags: one empty tag after Enter.
C26_MenuAppendsWithThePiecesAsTags ==
    [][last'.op = "note_add_menu" =>
          /\ OneNoteAppended
          /\ notes'[Len(notes')] = [content |-> last'.name, tags |-> str_split(last'.arg)]
          /\ last'.arg = Enter => notes'[Len(notes')].tags = << <<>> >>
          /\ notes_file' = note_write_to_file(notes')]_vars

\* add_note appends the note, with no tags when it is called without tags.
C26_AddNoteAppends ==
    [][ret'.op = "add_note" =>
          /\ OneNoteAppended
          /\ notes'[Len(notes')].content = ret'.arg
          /\ notes'[Len(notes')].tags = (IF ret'.arg2 = None THEN <<>> ELSE Val(ret'.arg2))]_vars

-----------------------------------------------------------------------------
(* The phone list of one record under add_phone, edit_phone and remove_phone,
   with numbers the validator accepts and numbers it rejects. *)

PhoneSup == <<"1", "2", "3", "4", "5", "6", "7", "8", "9">> \o <<Sup2>>
PhoneShort == <<"1", "2", "3", "4", "5">>
PhoneTexts == {PhoneA, PhoneB, PhoneSup, PhoneShort, BadPhone}

\* record.add_phone(value)
PhonesAddPhone ==
    /\ pc = "record"
    /\ \E value \in PhoneTexts :
          LET r == add_phone(record, value)
          IN  /\ r.ok => Len(record.phones) < MaxRecordPhones
              /\ record' = r.rec
              /\ ret' = [NoCall EXCEPT !.op = "add_phone", !.arg = value,
                                       !.res = Outcome(r.ok)]
    /\ UNCHANGED restOfRecord

\* record.edit_phone(old_phone, new_phone)
PhonesEditPhone ==
    /\ pc = "record"
    /\ \E old_phone \in PhoneTexts, new_phone \in PhoneTexts :
          LET r == edit_phone(record, old_phone, new_phone)
          IN  /\ record' = r.rec
              /\ ret' = [NoCall EXCEPT !.op = "edit_phone", !.arg = old_phone,
                                       !.arg2 = new_phone, !.res = r.res,
                                       !.value = r.text]
    /\ UNCHANGED restOfRecord

\* record.remove_phone(phone)
PhonesRemovePhone ==
    /\ pc = "record"
    /\ \E phone \in PhoneTexts :
          LET r == remove_phone(record, phone)
          IN  /\ record' = r.rec
              /\ ret' = [NoCall EXCEPT !.op = "remove_phone", !.arg = phone,
                                       !.res = r.res]
    /\ UNCHANGED restOfRecord

NextPhones == PhonesAddPhone \/ PhonesEditPhone \/ PhonesRemovePhone

SpecPhones == InitRecord /\ [][NextPhones]_vars

\* C27: after any sequence of add_phone, edit_phone and remove_phone calls on
\* a record, successful or failing, every element of the record's phone list
\* is a string of exactly 10 decimal digits.
C27_PhonesAreTenDecimalDigits ==
    \A i \in 1..Len(record.phones) :
        Len(record.phones[i]) = 10 /\ AllDecimalDigits(record.phones[i])

\* Every element of the phone list is a string the Phone validator accepts,
\* and a call that fails leaves the list as it was.
C27_PhonesPassTheValidator ==
    [][/\ \A i \in 1..Len(record'.phones) : Phone(record'.phones[i]).ok
       /\ ret'.res = "ValueError" => record' = record]_vars

\* What C27 says, as long as no number with a superscript digit was passed.
C27_HoldsWithoutSuperscripts ==
    [][(/\ \A i \in 1..Len(record.phones) :
              Len(record.phones[i]) = 10 /\ AllDecimalDigits(record.phones[i])
        /\ Sup2 \notin Range(ret'.arg)
        /\ Sup2 \notin Range(ret'.arg2))
       => \A i \in 1..Len(record'.phones) :
             Len(record'.phones[i]) = 10 /\ AllDecimalDigits(record'.phones[i])]_vars

-----------------------------------------------------------------------------
\* The commands of the contact menus that change the store.
ContactCommands ==
    {"add_contact", "edit_phone", "edit_name", "delete_contact", "delete_phone",
     "delete_address", "delete_birthday", "delete_email"} \cup AddMenuCommands

\* The file holds what the phone_book of the sub-assistant at work holds.
WrittenThrough(f, book) ==
    /\ f.exists
    /\ f = write_to_file(book)
    /\ read_from_file(f) = book

\* C28: write-through persistence.  Whenever control is back at the menu
\* prompt after an add contact, add or delete of a phone, birthday, email or
\* address, edit phone, rename or delete contact, the file holds the mapping
\* that the assistant that performed it has in memory; every step of such a
\* command that changes the mapping or the file leaves the two equal, so no
\* change that was made waits for an explicit save.
C28_WriteThroughPersistence ==
    [][last'.op \in ContactCommands =>
          /\ (pc' = "main" /\ file'.exists) => WrittenThrough(file', phone_book')
          /\ (phone_book' # phone_book \/ file' # file) =>
                WrittenThrough(file', phone_book')]_vars

\* Back at the menu after a contact was deleted from a store of two: the file
\* holds the one that is left, as the DeleteAssistant's phone_book does, while
\* the ContactAssistant still holds both.
C28_Witness ==
    /\ pc = "main" /\ last.op = "delete_contact"
    /\ "The contact was removed." \in last.shown
    /\ Len(phone_book) = 1 /\ Len(contact_book) = 2
    /\ WrittenThrough(file, phone_book)

-----------------------------------------------------------------------------
\* The contacts that file f holds, none when there is no file.
Persisted(f) == IF f.exists THEN read_from_file(f) ELSE <<>>

\* The entries of d under other names than those of the set names.
OtherContacts(d, names) == {d[i] : i \in {j \in 1..Len(d) : d[j].key \notin names}}

\* The names the command of this step is about: the name that was typed and,
\* for a rename to a name that no contact had, the new name.
Targets ==
    {last'.name} \cup
    (IF last'.op = "edit_name" /\ last'.arg \notin Keys(Persisted(file))
     THEN {last'.arg} ELSE {})

\* C29: a contact menu operation that targets one contact (add, edit or
\* delete of a phone, birthday, email or address, rename to any non-empty
\* name, deletion of the contact) leaves every other contact in the persisted
\* store unchanged: no other name is added, removed or has its fields altered.
C29_OtherContactsStayUnchanged ==
    [][last'.op \in ContactCommands =>
          OtherContacts(Persisted(file'), Targets) =
              OtherContacts(Persisted(file), {last'.name})]_vars

\* The rename of this step is to the name of another contact in the file.
RenameOntoAnotherContact ==
    /\ last'.op = "edit_name"
    /\ last'.arg # last'.name
    /\ last'.arg \in Keys(Persisted(file))
    /\ file' # file

\* What C29 says, for every operation but a rename to the name that another
\* contact has.
C29_HoldsExceptRenameOntoAnotherContact ==
    [][(last'.op \in ContactCommands /\ ~RenameOntoAnotherContact) =>
          OtherContacts(Persisted(file'), Targets) =
              OtherContacts(Persisted(file), {last'.name})]_vars

\* A rename to the name of another contact puts the renamed record in the
\* place of that contact.
C29_RenameReplacesTheOtherContact ==
    [][RenameOntoAnotherContact =>
          \E i \in 1..Len(Persisted(file')), j \in 1..Len(Persisted(file)) :
              /\ Persisted(file')[i].key = last'.arg
              /\ Persisted(file)[j].key = last'.name
              /\ Persisted(file')[i].rec =
                     [Persisted(file)[j].rec EXCEPT !.name = last'.arg]]_vars

-----------------------------------------------------------------------------
\* ADD BIRTHDAY, ADD EMAIL and ADD ADDRESS of the add menu.
AddFieldCommands == {"add_birthday_menu", "add_email_menu", "add_address_menu"}

\* The field of the record that the command is about.
FieldOf(rec, cmd) ==
    CASE cmd = "add_birthday_menu" -> rec.birthday
      [] cmd = "add_email_menu" -> rec.email
      [] cmd = "add_address_menu" -> rec.address

\* The records that file f holds under the name: one or none.
Stored(f, name) ==
    {Persisted(f)[i].rec : i \in {j \in 1..Len(Persisted(f)) : Persisted(f)[j].key = name}}

\* The command ends at once with this message, the file is as it was and the
\* phone_book holds what the file holds.
RefusedWith(message) ==
    /\ pc' = "main"
    /\ message \in last'.shown
    /\ file' = file
    /\ phone_book' = Persisted(file)

\* C30: ADD BIRTHDAY, ADD EMAIL and ADD ADDRESS from the add menu never
\* overwrite an existing value: when the selected contact already has the
\* field, the command reports that the contact has it and leaves the record
\* and the persisted store unchanged; when the contact is not found nothing is
\* changed either.  No later step of such a command changes a value of that
\* field that a stored contact has.
C30_AddMenuKeepsAnExistingValue ==
    [][last'.op \in AddFieldCommands =>
          /\ (pc = "add" /\ Stored(file, last'.name) = {}) =>
                RefusedWith("The contact was not found.")
          /\ pc = "add" =>
                \A rec \in Stored(file, last'.name) :
                    ~IsNone(FieldOf(rec, last'.op)) => RefusedWith("This contact has it.")
          /\ \A i \in 1..Len(Persisted(file)) :
                ~IsNone(FieldOf(Persisted(file)[i].rec, last'.op)) =>
                    \E rec \in Stored(file', Persisted(file)[i].key) :
                        FieldOf(rec, last'.op) = FieldOf(Persisted(file)[i].rec, last'.op)]_vars

\* ADD EMAIL for a stored contact that has an email ended with the message.
C30_Witness ==
    /\ pc = "main" /\ last.op = "add_email_menu"
    /\ "This contact has it." \in last.shown
    /\ \E rec \in Stored(file, last.name) : ~IsNone(rec.email)

=============================================================================
